---- MODULE Spec2Model ----
(***************************************************************************)
(* A model of the Nexus Arena client: the chat views and their realtime    *)
(* channels, the notification hook, the Teams page, the session store and  *)
(* the data-access functions of services/api, each over a backend that     *)
(* answers every request with a result or with an error.                   *)
(***************************************************************************)
EXTENDS Integers, Sequences, FiniteSets, TLC

\* ------------------------------------------------------------------------
\* Bounds of the model
\* ------------------------------------------------------------------------
\* operations started on a chat view: selections, sends, messages of others
MaxOps == 3
\* rows of the notifications table when the hook mounts
MaxInitNotifs == 1
\* operations on the notification hook: mark calls and pushed notifications
MaxNotifOps == 2
\* rows of the teams table at the start
MaxInitTeams == 1
\* calls of services/api functions made directly
MaxApiCalls == 1
\* create and delete requests made on the Teams page
MaxTeamOps == 1
\* login, register and logout calls made on the session store
MaxAuthOps == 1
\* submissions of the match form
MaxMatchOps == 2
\* rows of the profiles table when setup-storage runs
MaxProfiles == 2
\* calls of the functions of usePlayerRequests, useChats and ChatPage.joinChat
MaxHookOps == 2
MaxChatOps == 2

Chats == {1, 2}

\* chatId / selectedChat when no chat is shown (null)
NoChat == 0

\* the chat the dashboard widget is bound to
GLOBAL_CHAT_ID == 1

Views == {"ChatPage", "ChatDrawer", "useChatMessages", "GlobalChatWidget"}

\* the views whose sendMessage shows the message before the backend answers
OptimisticViews == {"ChatDrawer", "useChatMessages", "GlobalChatWidget"}

VARIABLES
    \* ---- chat view ----
    view,            \* which chat component this instance is
    selectedChat,    \* the chat shown (chatId / selectedChat), NoChat when none
    messages,        \* the local transcript
    channels,        \* realtime channels opened and not removed
    evq,             \* row-insert events on their way to this client
    pendingProfile,  \* profile fetches started by the insert handler
    fetches,         \* history fetches (fetchMessages) in flight
    sends,           \* sendMessage calls and their progress
    dbMessages,      \* the messages table of the backend
    nSelects,        \* how many times the selection changed
    \* ---- useNotifications ----
    notifUser,       \* whether useAuth() gives a user
    notifications,   \* the local notification list
    unreadCount,     \* the unread counter
    dbNotifs,        \* the user's rows of the notifications table, oldest first
    notifFetch,      \* fetchNotifications in flight
    nevq,            \* row-insert events of the notifications channel
    marks,           \* markAsRead / markAllAsRead calls and their progress
    \* ---- services/api and the Teams page ----
    dbTeams,         \* the teams table
    dbMembers,       \* the team_members table
    teamSeq,         \* ids the backend has given to teams
    calls,           \* calls of services/api functions in progress or finished
    callSeq,         \* calls made so far
    tProfile,        \* useAuth().profile?.id on the Teams page
    teams,           \* the Browse Teams list
    myTeams,         \* the My Teams list
    isLoading,       \* Teams.isLoading
    isSubmitting,    \* CreateTeamForm.isSubmitting
    effectDue,       \* the effect on [profile?.id] has to run
    nTeamOps,        \* create and delete requests made on the Teams page
    \* ---- AuthProvider (the session store) and the profile form ----
    user,            \* AuthProvider.user: the id of the user, NoUser for null
    session,         \* AuthProvider.session: the user it is for, NoUser for null
    profile,         \* AuthProvider.profile
    authIsLoading,   \* AuthProvider.isLoading
    gotSession,      \* the getSession() promise has resolved
    clientSession,   \* the session the auth client holds (and persists)
    authEvq,         \* auth-state events not yet given to the listener
    timers,          \* setTimeout(fetchProfile) callbacks not yet run
    pfetch,          \* fetchProfile calls in flight
    authCalls,       \* login / register / logout calls in flight
    sub,             \* the submission of the profile form
    dbAvatar,        \* avatar_url of the user's row of the profiles table
    lastEvent,       \* the last auth-state event the listener handled
    nAuthOps,        \* login, register and logout calls made
    \* ---- the route shown and the Matches page ----
    route,           \* which page of the client is shown
    mProfile,        \* useAuth().profile?.id in ScheduleMatchForm
    mIsSubmitting,   \* ScheduleMatchForm.isSubmitting
    upcomingMatches, \* Matches.upcomingMatches, the list of the page
    nMatchOps,       \* submissions of the match form
    \* ---- the setup-storage function ----
    buckets,         \* names of the storage buckets
    dbChats,         \* how many chats rows are named as the default chat
    dbProfiles,      \* ids of the profiles rows
    dbParticipants,  \* per profile, its chat_participants rows of the default chat
    setup,           \* the run of the serve handler
    \* ---- usePlayerRequests, useChats and ChatPage.joinChat ----
    hUser,           \* useAuth().user of the hooks: a user id, NoUser for null
    hCalls,          \* calls of the hooks' functions, under way or returned
    dbRequests,      \* the player_requests table
    dbNotices,       \* the notifications rows the hooks have inserted
    dbChatRows,      \* the chats table
    dbJoined,        \* chat_participants: per chat and user, how many rows
    chats            \* useChats.chats, the loaded chat list

chatVars == <<view, selectedChat, messages, channels, evq, pendingProfile,
              fetches, sends, dbMessages, nSelects>>

notifVars == <<notifUser, notifications, unreadCount, dbNotifs, notifFetch,
               nevq, marks>>

apiVars == <<dbTeams, dbMembers, teamSeq, calls, callSeq>>

teamVars == <<tProfile, teams, myTeams, isLoading, isSubmitting, effectDue,
              nTeamOps>>

authVars == <<user, session, profile, authIsLoading, gotSession, clientSession,
              authEvq, timers, pfetch, authCalls, sub, dbAvatar, lastEvent,
              nAuthOps>>

matchVars == <<route, mProfile, mIsSubmitting, upcomingMatches, nMatchOps>>

setupVars == <<buckets, dbChats, dbProfiles, dbParticipants, setup>>

hookVars == <<hUser, hCalls, dbRequests, dbNotices, dbChatRows, dbJoined, chats>>

vars == <<chatVars, notifVars, apiVars, teamVars, authVars, matchVars, setupVars,
          hookVars>>

\* what the handlers of one component leave alone
nonChatVars == <<notifVars, apiVars, teamVars, authVars, matchVars, setupVars, hookVars>>
nonNotifVars == <<chatVars, apiVars, teamVars, authVars, matchVars, setupVars, hookVars>>
nonApiVars == <<chatVars, notifVars, teamVars, authVars, matchVars, setupVars, hookVars>>
nonTeamVars == <<chatVars, notifVars, authVars, matchVars, setupVars, hookVars>>
nonAuthVars == <<chatVars, notifVars, apiVars, teamVars, matchVars, setupVars, hookVars>>
nonMatchVars == <<chatVars, notifVars, teamVars, authVars, setupVars, hookVars>>
nonHookVars == <<chatVars, notifVars, apiVars, teamVars, authVars, matchVars,
                 setupVars>>
nonSetupVars == <<chatVars, notifVars, apiVars, teamVars, authVars, matchVars, hookVars>>

\* ------------------------------------------------------------------------
\* Helpers
\* ------------------------------------------------------------------------
RECURSIVE SeqToSet(_)
SeqToSet(s) == IF s = <<>> THEN {} ELSE {Head(s)} \cup SeqToSet(Tail(s))

RECURSIVE FilterSeq(_, _)
\* Array.prototype.filter over a sequence, by a set of kept elements
FilterSeq(s, keep) ==
    IF s = <<>> THEN <<>>
    ELSE IF Head(s) \in keep THEN <<Head(s)>> \o FilterSeq(Tail(s), keep)
         ELSE FilterSeq(Tail(s), keep)

\* `temp-${Date.now()}`: the id of the n-th optimistic entry; row ids are positive
TempId(n) == 0 - n
IsTemp(id) == id < 0

\* the transcript entry made from a row of the messages table
Entry(row) == [id |-> row.id, chat |-> row.chat, content |-> row.content]

Ids(msgs) == {m.id : m \in SeqToSet(msgs)}

RowsOf(c) == FilterSeq(dbMessages, {r \in SeqToSet(dbMessages) : r.chat = c})

RECURSIVE MapEntry(_)
MapEntry(rows) ==
    IF rows = <<>> THEN <<>> ELSE <<Entry(Head(rows))>> \o MapEntry(Tail(rows))

OpenChats == {ch.chat : ch \in channels}

OtherRows == {r \in SeqToSet(dbMessages) : r.user = "other"}

\* operations started so far
NOps == nSelects + Cardinality(sends) + Cardinality(OtherRows)

\* ------------------------------------------------------------------------
\* The chat views
\* ------------------------------------------------------------------------
ChatInit ==
    /\ view \in Views
    /\ selectedChat = NoChat
    /\ messages = <<>>
    /\ channels = {}
    /\ evq = <<>>
    /\ pendingProfile = {}
    /\ fetches = {}
    /\ sends = {}
    /\ dbMessages = <<>>
    /\ nSelects = 0

\* a cleanup that leaves the channel of the previous effect open
RemoveChannelNever(chs, old) == chs

\* supabase.removeChannel(channel) of the effect cleanup: the channel the
\* effect opened is removed and its undelivered events reach no handler
RemoveChannel(chs, old) == {ch \in chs : ch.chat # old}

\* the effect body: fetchMessages() is started and the channel is opened; the
\* insert handler closes over the transcript of the render the effect ran in
Subscribe(chs, c, n) ==
    IF c = NoChat THEN chs
    ELSE chs \cup {[chat |-> c, sub |-> n, seen |-> Ids(messages)]}

\* The selection changes (ChatPage setSelectedChat, the chatId / isOpen props of
\* ChatDrawer, the chatId of useChatMessages, the mount of GlobalChatWidget):
\* the cleanup of the previous effect runs, then the effect of the new chat.
SelectChat(c) ==
    /\ NOps < MaxOps
    /\ c # selectedChat
    /\ view = "GlobalChatWidget" => (c = GLOBAL_CHAT_ID /\ selectedChat = NoChat)
    /\ nSelects' = nSelects + 1
    /\ selectedChat' = c
    /\ channels' = Subscribe(RemoveChannel(channels, selectedChat), c, nSelects + 1)
    /\ evq' = FilterSeq(evq, {e \in SeqToSet(evq) : e.chat # selectedChat})
    /\ fetches' = IF c = NoChat THEN fetches
                  ELSE fetches \cup {[n |-> nSelects + 1, chat |-> c,
                                      phase |-> "req", rows |-> <<>>, err |-> FALSE]}
    /\ UNCHANGED <<view, messages, pendingProfile, sends, dbMessages>>
    /\ UNCHANGED nonChatVars

\* The backend writes a row into messages and pushes the row-insert event on
\* every channel of this client whose filter (chat_id=eq.<chat>) matches.
InsertRow(row) ==
    /\ dbMessages' = Append(dbMessages, row)
    /\ evq' = IF row.chat \in OpenChats
              THEN Append(evq, [chat |-> row.chat, row |-> row])
              ELSE evq

NextRowId == Len(dbMessages) + 1

\* Another client sends a message to chat c.
OtherInsert(c) ==
    /\ NOps < MaxOps
    /\ InsertRow([id |-> NextRowId, chat |-> c, content |-> 0, user |-> "other"])
    /\ UNCHANGED <<view, selectedChat, messages, channels, pendingProfile,
                   fetches, sends, nSelects>>
    /\ UNCHANGED nonChatVars

\* sendMessage up to its await: the optimistic views append the temporary
\* entry, then the insert request leaves.
SendStart ==
    /\ selectedChat # NoChat
    /\ NOps < MaxOps
    /\ LET n == Cardinality(sends) + 1 IN
       /\ sends' = sends \cup {[n |-> n, chat |-> selectedChat,
                                phase |-> "sent", res |-> "none"]}
       /\ messages' = IF view \in OptimisticViews
                      THEN Append(messages, [id |-> TempId(n), chat |-> selectedChat,
                                             content |-> n])
                      ELSE messages
    /\ UNCHANGED <<view, selectedChat, channels, evq, pendingProfile, fetches,
                   dbMessages, nSelects>>
    /\ UNCHANGED nonChatVars

\* The backend answers the insert of a send: the row is written, or the
\* request comes back with an error, or the call throws.
SendServer(s, res) ==
    /\ s \in sends
    /\ s.phase = "sent"
    /\ sends' = (sends \ {s}) \cup {[s EXCEPT !.phase = "answered", !.res = res]}
    /\ IF res = "ok"
       THEN InsertRow([id |-> NextRowId, chat |-> s.chat, content |-> s.n, user |-> "me"])
       ELSE UNCHANGED <<dbMessages, evq>>
    /\ UNCHANGED <<view, selectedChat, messages, channels, pendingProfile,
                   fetches, nSelects>>
    /\ UNCHANGED nonChatVars

\* prev.filter(m => m.id !== tempMsg.id)
RemoveTemp(msgs, n) == FilterSeq(msgs, {m \in SeqToSet(msgs) : m.id # TempId(n)})

\* The transcript after sendMessage resumed with the backend's answer.
AfterSend(msgs, n, res) ==
    CASE view = "ChatPage" -> msgs
      [] view = "useChatMessages" -> IF res = "err" THEN RemoveTemp(msgs, n) ELSE msgs
      [] OTHER -> IF res \in {"err", "throw"} THEN RemoveTemp(msgs, n) ELSE msgs

\* sendMessage after its await.
SendDone(s) ==
    /\ s \in sends
    /\ s.phase = "answered"
    /\ sends' = (sends \ {s}) \cup {[s EXCEPT !.phase = "done"]}
    /\ messages' = AfterSend(messages, s.n, s.res)
    /\ UNCHANGED <<view, selectedChat, channels, evq, pendingProfile, fetches,
                   dbMessages, nSelects>>
    /\ UNCHANGED nonChatVars

\* The checks of the insert handler before it fetches the sender's profile:
\* TRUE when the handler returns early.
HandlerSkips(ch, row) ==
    CASE view = "ChatPage" -> FALSE
      [] view = "useChatMessages" -> IsTemp(row.id) \/ row.id \in ch.seen
      [] OTHER -> row.id \in ch.seen

\* A row-insert event arrives: the handler of its channel runs up to its await.
DeliverEvent ==
    /\ evq # <<>>
    /\ LET e == Head(evq) IN
       /\ evq' = Tail(evq)
       /\ pendingProfile' =
            pendingProfile \cup
              {[row |-> e.row, sub |-> ch.sub] :
                 ch \in {x \in channels : x.chat = e.chat /\ ~HandlerSkips(x, e.row)}}
    /\ UNCHANGED <<view, selectedChat, messages, channels, fetches, sends,
                   dbMessages, nSelects>>
    /\ UNCHANGED nonChatVars

\* The transcript after the profile fetch of the insert handler resolved
\* ("data": a profile row, "nodata": no row, "throw": the fetch threw).
AfterProfile(msgs, row, out) ==
    IF view = "ChatPage" /\ out # "data" THEN msgs ELSE Append(msgs, Entry(row))

\* The insert handler after its await.
ProfileResolved(p, out) ==
    /\ p \in pendingProfile
    /\ pendingProfile' = pendingProfile \ {p}
    /\ messages' = AfterProfile(messages, p.row, out)
    /\ UNCHANGED <<view, selectedChat, channels, evq, fetches, sends,
                   dbMessages, nSelects>>
    /\ UNCHANGED nonChatVars

\* The backend answers the select of fetchMessages.
FetchServer(f, err) ==
    /\ f \in fetches
    /\ f.phase = "req"
    /\ fetches' = (fetches \ {f}) \cup
                    {[f EXCEPT !.phase = "resp", !.err = err,
                               !.rows = IF err THEN <<>> ELSE RowsOf(f.chat)]}
    /\ UNCHANGED <<view, selectedChat, messages, channels, evq, pendingProfile,
                   sends, dbMessages, nSelects>>
    /\ UNCHANGED nonChatVars

\* fetchMessages after its awaits: setMessages(messagesWithProfiles), or the
\* catch branch when the select failed.
FetchDone(f) ==
    /\ f \in fetches
    /\ f.phase = "resp"
    /\ fetches' = fetches \ {f}
    /\ messages' = IF f.err THEN messages ELSE MapEntry(f.rows)
    /\ UNCHANGED <<view, selectedChat, channels, evq, pendingProfile, sends,
                   dbMessages, nSelects>>
    /\ UNCHANGED nonChatVars

ChatNext ==
    \/ \E c \in Chats \cup {NoChat} : SelectChat(c)
    \/ \E c \in Chats : OtherInsert(c)
    \/ SendStart
    \/ \E s \in sends, res \in {"ok", "err", "throw"} : SendServer(s, res)
    \/ \E s \in sends : SendDone(s)
    \/ DeliverEvent
    \/ \E p \in pendingProfile, out \in {"data", "nodata", "throw"} : ProfileResolved(p, out)
    \/ \E f \in fetches, err \in BOOLEAN : FetchServer(f, err)
    \/ \E f \in fetches : FetchDone(f)

NotifIdle ==
    /\ notifUser = FALSE
    /\ notifications = <<>>
    /\ unreadCount = 0
    /\ dbNotifs = <<>>
    /\ notifFetch = [phase |-> "none", rows |-> <<>>, err |-> FALSE]
    /\ nevq = <<>>
    /\ marks = {}

ApiIdle ==
    /\ dbTeams = {}
    /\ dbMembers = {}
    /\ teamSeq = 0
    /\ calls = {}
    /\ callSeq = 0

\* profile null
NullProfile == [id |-> 0, avatar_url |-> 0]

\* the profile form before a submission
NoSubmission == [phase |-> "idle", file |-> FALSE, path |-> 0, updateErr |-> FALSE,
                 refreshErr |-> FALSE, usr |-> 0, called |-> FALSE,
                 upNotice |-> "none", notice |-> "none", nav |-> FALSE]

AuthIdle ==
    /\ user = 0
    /\ session = 0
    /\ profile = NullProfile
    /\ authIsLoading = FALSE
    /\ gotSession = FALSE
    /\ clientSession = 0
    /\ authEvq = <<>>
    /\ timers = 0
    /\ pfetch = {}
    /\ authCalls = {}
    /\ sub = NoSubmission
    /\ dbAvatar = 0
    /\ lastEvent = "none"
    /\ nAuthOps = 0

TeamsIdle ==
    /\ tProfile = 0
    /\ teams = <<>>
    /\ myTeams = <<>>
    /\ isLoading = FALSE
    /\ isSubmitting = FALSE
    /\ effectDue = FALSE
    /\ nTeamOps = 0

MatchIdle ==
    /\ mProfile = 0
    /\ mIsSubmitting = FALSE
    /\ upcomingMatches = <<>>
    /\ nMatchOps = 0

\* setup-storage has not been deployed: nothing for it to work on
SetupIdle ==
    /\ buckets = {}
    /\ dbChats = 0
    /\ dbProfiles = {}
    /\ dbParticipants = <<>>
    /\ setup = [pc |-> "idle", users |-> <<>>, i |-> 0, status |-> 0, body |-> "none",
                logged |-> {}]

\* no component uses the hooks
HooksIdle ==
    /\ hUser = 0
    /\ hCalls = {}
    /\ dbRequests = {}
    /\ dbNotices = {}
    /\ dbChatRows = {}
    /\ dbJoined = <<>>
    /\ chats = <<>>

InitChat ==
    /\ ChatInit /\ NotifIdle /\ ApiIdle /\ TeamsIdle /\ AuthIdle
    /\ MatchIdle /\ SetupIdle /\ HooksIdle /\ route = "/chat"

SpecChat == InitChat /\ [][ChatNext]_vars

\* ---- claims about the chat views ----

\* the push-delivered copy of send n is in the transcript
HasPushed(n) == \E m \in SeqToSet(messages) : ~IsTemp(m.id) /\ m.content = n

\* C1: once a send has completed, the transcript never holds both its
\* optimistic 'temp-' entry and the push-delivered copy of the same message.
C1_AtMostOnce ==
    \A s \in sends :
        (s.phase = "done" /\ view \in OptimisticViews)
            => ~(TempId(s.n) \in Ids(messages) /\ HasPushed(s.n))

\* the insert handler of subscription n appends its message in this step
PushAppendFrom(n) ==
    \E p \in pendingProfile :
        /\ p.sub = n
        /\ pendingProfile' = pendingProfile \ {p}
        /\ messages' = Append(messages, Entry(p.row))

\* C2: a change of the selected chat removes the channel of the previous chat
\* and opens the channel of the new one, and while a chat is shown no append of
\* a handler whose channel has been removed modifies the transcript.
C2_SwitchUnsubscribes ==
    [][ /\ (selectedChat' # selectedChat => OpenChats' = {selectedChat'} \ {NoChat})
        /\ \A n \in 1..MaxOps :
              (selectedChat # NoChat /\ PushAppendFrom(n))
                  => n \in {ch.sub : ch \in channels} ]_vars

\* the insert handler that was waiting with p ends in this step
HandlerEnds(p) ==
    /\ p \in pendingProfile
    /\ pendingProfile' = pendingProfile \ {p}

\* p is an event of the chat shown, received on its open channel
OnCurrentChannel(p) ==
    /\ p.row.chat = selectedChat
    /\ p.sub \in {ch.sub : ch \in channels}

\* C11: every row-insert event delivered on the open channel of the chat
\* shown ends with its message in the transcript: when the handler of such an
\* event ends, the transcript holds an entry for the row.
C11_DeliveredIsAppended ==
    [][\A p \in pendingProfile :
          (OnCurrentChannel(p) /\ HandlerEnds(p)) => p.row.id \in Ids(messages')]_vars

\* C12: messages received by push are listed in the order their events
\* arrived: when a handler appends its message, no event that arrived
\* earlier on the same channel is still waiting to be appended (it would be
\* placed after the later one).
C12_ArrivalOrder ==
    [][\A p \in pendingProfile :
          (view \in OptimisticViews /\ HandlerEnds(p)
             /\ messages' = Append(messages, Entry(p.row)))
          => ~\E q \in pendingProfile' : q.sub = p.sub /\ q.row.id < p.row.id]_vars

\* C13: the id check of the insert handler keeps the ids of the transcript
\* apart: no two entries share an id that is not temporary.
C13_NoSharedId ==
    view \in OptimisticViews =>
        \A i, j \in 1..Len(messages) :
            (i < j /\ messages[i].id = messages[j].id) => IsTemp(messages[i].id)

\* C19: when the insert of a send failed, by an error or by an exception,
\* the send ends with its optimistic entry removed from the transcript, which
\* is otherwise as it was.
C19_FailedSendRemovesTemp ==
    [][\A s \in sends :
          ( /\ view \in OptimisticViews
            /\ s.phase = "answered" /\ s.res \in {"err", "throw"}
            /\ sends' = (sends \ {s}) \cup {[s EXCEPT !.phase = "done"]} )
          => (TempId(s.n) \notin Ids(messages') /\ messages' = RemoveTemp(messages, s.n))]_vars

\* C21: a chat view (ChatPage, ChatDrawer, useChatMessages) holds at most
\* one open channel, the open channel is the one of the selected chat, and
\* with no chat shown (unmounted, drawer closed) it holds none.
C21_OneChannelOfSelected ==
    view \in {"ChatPage", "ChatDrawer", "useChatMessages"} =>
        /\ Cardinality(channels) <= 1
        /\ OpenChats \subseteq {selectedChat}
        /\ selectedChat = NoChat => channels = {}

\* C21 happens: a view that had a channel open and changed its chat has
\* been unmounted
C21_Witness ==
    /\ view \in {"ChatPage", "ChatDrawer", "useChatMessages"}
    /\ nSelects >= 3
    /\ selectedChat = NoChat /\ channels = {}

\* C28: while a chat stays shown in ChatDrawer or useChatMessages, a
\* message of that chat that is in the transcript stays in it, also in the
\* step in which the history fetch started at subscription completes.
C28_NoMessageLost ==
    [][(view \in {"ChatDrawer", "useChatMessages"} /\ selectedChat' = selectedChat)
          => \A m \in SeqToSet(messages) :
                (~IsTemp(m.id) /\ m.chat = selectedChat) => m.id \in Ids(messages')]_vars

\* the history fetch f of a chat shown earlier ends in this step, after the
\* fetch of the chat shown now has ended and with every entry of the
\* transcript belonging to the chat shown now
LateFetchEnds(f) ==
    /\ f \in fetches /\ f.phase = "resp" /\ fetches' = fetches \ {f}
    /\ selectedChat # NoChat /\ f.n # nSelects
    /\ ~\E g \in fetches : g.n = nSelects
    /\ \A m \in SeqToSet(messages) : m.chat = selectedChat

\* C29: in ChatPage and useChatMessages, once the history of the selected
\* chat has been loaded every entry of the transcript is of the selected
\* chat, also after the history fetch of a chat selected earlier completes.
C29_TranscriptOfSelected ==
    [][\A f \in fetches :
          (view \in {"ChatPage", "useChatMessages"} /\ LateFetchEnds(f))
             => \A m \in SeqToSet(messages') : m.chat = selectedChat]_vars

\* ------------------------------------------------------------------------
\* useNotifications
\* ------------------------------------------------------------------------
ChatIdle ==
    /\ view = "ChatPage"
    /\ selectedChat = NoChat
    /\ messages = <<>>
    /\ channels = {}
    /\ evq = <<>>
    /\ pendingProfile = {}
    /\ fetches = {}
    /\ sends = {}
    /\ dbMessages = <<>>
    /\ nSelects = 0

RECURSIVE Reverse(_)
Reverse(s) == IF s = <<>> THEN <<>> ELSE Reverse(Tail(s)) \o <<Head(s)>>

\* data.filter(n => !n.read).length
Unread(list) == Cardinality({i \in 1..Len(list) : ~list[i].read})

\* Math.max(0, x)
Max0(x) == IF x < 0 THEN 0 ELSE x

\* The state after the first render and its effect: with a user the fetch is
\* in flight and the channel is open; the table holds some rows already.
NotifInit ==
    /\ notifUser \in BOOLEAN
    /\ notifications = <<>>
    /\ unreadCount = 0
    /\ \E k \in 0..MaxInitNotifs :
          dbNotifs \in [1..k -> {[id |-> i, read |-> b] : i \in 1..k, b \in BOOLEAN}]
    /\ \A i \in 1..Len(dbNotifs) : dbNotifs[i].id = i
    /\ notifFetch = [phase |-> IF notifUser THEN "req" ELSE "none",
                     rows |-> <<>>, err |-> FALSE]
    /\ nevq = <<>>
    /\ marks = {}

NNotifOps == Cardinality(marks) + (Len(dbNotifs) - Cardinality({r \in SeqToSet(dbNotifs) : r.id <= MaxInitNotifs}))

\* The backend answers the select of fetchNotifications
\* (order('created_at', { ascending: false })).
NotifFetchServer(err) ==
    /\ notifFetch.phase = "req"
    /\ notifFetch' = [phase |-> "resp", err |-> err,
                      rows |-> IF err THEN <<>> ELSE Reverse(dbNotifs)]
    /\ UNCHANGED <<notifUser, notifications, unreadCount, dbNotifs, nevq, marks>>
    /\ UNCHANGED nonNotifVars

\* fetchNotifications after its await.
NotifFetchDone ==
    /\ notifFetch.phase = "resp"
    /\ notifFetch' = [phase |-> "none", rows |-> <<>>, err |-> FALSE]
    /\ IF notifFetch.err
       THEN UNCHANGED <<notifications, unreadCount>>
       ELSE /\ notifications' = notifFetch.rows
            /\ unreadCount' = Unread(notifFetch.rows)
    /\ UNCHANGED <<notifUser, dbNotifs, nevq, marks>>
    /\ UNCHANGED nonNotifVars

\* Some other part of the system inserts a notification for the user; the
\* event is pushed when the hook holds its channel.
NotifInsert ==
    /\ NNotifOps < MaxNotifOps
    /\ LET row == [id |-> MaxInitNotifs + Len(dbNotifs) + 1, read |-> FALSE] IN
       /\ dbNotifs' = Append(dbNotifs, row)
       /\ nevq' = IF notifUser THEN Append(nevq, row) ELSE nevq
    /\ UNCHANGED <<notifUser, notifications, unreadCount, notifFetch, marks>>
    /\ UNCHANGED nonNotifVars

\* The insert handler of the notifications channel.
NotifDeliver ==
    /\ nevq # <<>>
    /\ nevq' = Tail(nevq)
    /\ notifications' = <<Head(nevq)>> \o notifications
    /\ unreadCount' = unreadCount + 1
    /\ UNCHANGED <<notifUser, dbNotifs, notifFetch, marks>>
    /\ UNCHANGED nonNotifVars

NotifIds(list) == {list[i].id : i \in 1..Len(list)}

\* the ids markAsRead is called with: handleNotificationClick passes a listed
\* notification; without a user nothing is listed and any id can be passed
Clickable ==
    IF notifUser THEN NotifIds(notifications) ELSE {r.id : r \in SeqToSet(dbNotifs)}

\* markAsRead(id) up to its await; without a user it returns false at once.
MarkAsReadStart(id) ==
    /\ NNotifOps < MaxNotifOps
    /\ marks' = marks \cup
         {[n |-> Cardinality(marks) + 1, kind |-> "one", id |-> id,
           phase |-> IF notifUser THEN "sent" ELSE "done",
           res |-> IF notifUser THEN "none" ELSE "nouser",
           ret |-> IF notifUser THEN "none" ELSE "false"]}
    /\ UNCHANGED <<notifUser, notifications, unreadCount, dbNotifs, notifFetch, nevq>>
    /\ UNCHANGED nonNotifVars

\* markAllAsRead() up to its await; without a user or with nothing unread it
\* returns false at once.
MarkAllStart ==
    /\ NNotifOps < MaxNotifOps
    /\ LET go == notifUser /\ unreadCount # 0 IN
       marks' = marks \cup
         {[n |-> Cardinality(marks) + 1, kind |-> "all", id |-> 0,
           phase |-> IF go THEN "sent" ELSE "done",
           res |-> IF go THEN "none" ELSE "nouser",
           ret |-> IF go THEN "none" ELSE "false"]}
    /\ UNCHANGED <<notifUser, notifications, unreadCount, dbNotifs, notifFetch, nevq>>
    /\ UNCHANGED nonNotifVars

\* update({ read: true }).eq('id', id)  /  .eq('user_id', user.id).eq('read', false)
DbMarkRead(rows, m) ==
    [i \in 1..Len(rows) |->
        IF m.kind = "all" \/ rows[i].id = m.id
        THEN [rows[i] EXCEPT !.read = TRUE] ELSE rows[i]]

\* The backend answers the update of a mark call: done, an error in the
\* answer, or the request throws.
MarkServer(m, res) ==
    /\ m \in marks
    /\ m.phase = "sent"
    /\ marks' = (marks \ {m}) \cup {[m EXCEPT !.phase = "answered", !.res = res]}
    /\ dbNotifs' = IF res = "ok" THEN DbMarkRead(dbNotifs, m) ELSE dbNotifs
    /\ UNCHANGED <<notifUser, notifications, unreadCount, notifFetch, nevq>>
    /\ UNCHANGED nonNotifVars

\* current.map(n => (n.id === id ? { ...n, read: true } : n))
MarkOneLocal(list, id) ==
    [i \in 1..Len(list) |->
        IF list[i].id = id THEN [list[i] EXCEPT !.read = TRUE] ELSE list[i]]

\* current.map(n => ({ ...n, read: true }))
MarkAllLocal(list) == [i \in 1..Len(list) |-> [list[i] EXCEPT !.read = TRUE]]

\* a counter update without the clamp at zero
CountAfterMarkUnclamped(count) == count - 1

\* setUnreadCount(count => Math.max(0, count - 1))
CountAfterMark(count) == Max0(count - 1)

\* a mark call that updates the list and the counter whatever the backend
\* answered
MarkDoneAlways(m) ==
    /\ m \in marks
    /\ m.phase = "answered"
    /\ marks' = (marks \ {m}) \cup {[m EXCEPT !.phase = "done", !.ret = "false"]}
    /\ notifications' = IF m.kind = "one" THEN MarkOneLocal(notifications, m.id)
                        ELSE MarkAllLocal(notifications)
    /\ unreadCount' = IF m.kind = "one" THEN CountAfterMark(unreadCount) ELSE 0
    /\ UNCHANGED <<notifUser, dbNotifs, notifFetch, nevq>>
    /\ UNCHANGED nonNotifVars

\* markAsRead / markAllAsRead after the await: the updates and return true,
\* or the catch block and return false.
MarkDone(m) ==
    /\ m \in marks
    /\ m.phase = "answered"
    /\ marks' = (marks \ {m}) \cup
         {[m EXCEPT !.phase = "done",
                    !.ret = IF m.res = "ok" THEN "true" ELSE "false"]}
    /\ IF m.res # "ok"
       THEN UNCHANGED <<notifications, unreadCount>>
       ELSE IF m.kind = "one"
            THEN /\ notifications' = MarkOneLocal(notifications, m.id)
                 /\ unreadCount' = CountAfterMark(unreadCount)
            ELSE /\ notifications' = MarkAllLocal(notifications)
                 /\ unreadCount' = 0
    /\ UNCHANGED <<notifUser, dbNotifs, notifFetch, nevq>>
    /\ UNCHANGED nonNotifVars

NotifNext ==
    \/ \E err \in BOOLEAN : NotifFetchServer(err)
    \/ NotifFetchDone
    \/ NotifInsert
    \/ NotifDeliver
    \/ \E id \in Clickable : MarkAsReadStart(id)
    \/ MarkAllStart
    \/ \E m \in marks, res \in {"ok", "err", "throw"} : MarkServer(m, res)
    \/ \E m \in marks : MarkDone(m)

InitNotif ==
    /\ NotifInit /\ ChatIdle /\ ApiIdle /\ TeamsIdle /\ AuthIdle
    /\ MatchIdle /\ SetupIdle /\ HooksIdle /\ route = "/dashboard"

SpecNotif == InitNotif /\ [][NotifNext]_vars

\* ---- claims about useNotifications ----

\* this step is the completion of the successful markAsRead call m
MarkAsReadSucceeds(m) ==
    /\ m \in marks
    /\ m.kind = "one" /\ m.phase = "answered" /\ m.res = "ok"
    /\ marks' = (marks \ {m}) \cup {[m EXCEPT !.phase = "done", !.ret = "true"]}
    /\ m.id \in NotifIds(notifications)

\* the step keeps the list's length and every entry whose id is not id, and
\* the entries with that id are read afterwards
OnlyMarked(id) ==
    /\ Len(notifications') = Len(notifications)
    /\ \A i \in 1..Len(notifications) :
          IF notifications[i].id = id
          THEN notifications'[i] = [notifications[i] EXCEPT !.read = TRUE]
          ELSE notifications'[i] = notifications[i]

\* C3 as stated: a successful markAsRead(id) of a listed notification lowers
\* unreadCount by exactly one and changes no other notification.
C3_LowersByOne ==
    [][\A m \in marks :
          MarkAsReadSucceeds(m) => (unreadCount' = unreadCount - 1 /\ OnlyMarked(m.id))]_vars

\* C3 amended: a successful markAsRead(id) of a listed notification lowers
\* unreadCount by exactly one when it is positive and leaves it at zero
\* otherwise, and changes the read flag of no notification other than id.
C3_LowersByOneClamped ==
    [][\A m \in marks :
          MarkAsReadSucceeds(m) =>
             /\ unreadCount' = (IF unreadCount > 0 THEN unreadCount - 1 ELSE 0)
             /\ OnlyMarked(m.id)]_vars

\* a successful markAsRead of a listed notification has completed, next to a
\* notification it did not touch
C3_Witness ==
    \E m \in marks :
        /\ m.kind = "one" /\ m.phase = "done" /\ m.res = "ok"
        /\ \E i \in 1..Len(notifications) :
              notifications[i].id = m.id /\ notifications[i].read
        /\ \E i \in 1..Len(notifications) :
              notifications[i].id # m.id /\ ~notifications[i].read

\* the markAsRead call m returns in this step
MarkAsReadReturns(m) ==
    /\ m.kind = "one" /\ m.phase = "done"
    /\ m \in marks' /\ m \notin marks

\* C26: a markAsRead call whose update failed (an error in the answer or an
\* exception), or that was made with no user, returns false, and the step
\* in which it returns leaves the notification list and unreadCount as they
\* were.
C26_FailedMarkChangesNothing ==
    [][\A m \in marks' :
          (MarkAsReadReturns(m) /\ m.res # "ok")
             => /\ m.ret = "false"
                /\ notifications' = notifications
                /\ unreadCount' = unreadCount]_vars

\* C26 happens: markAsRead of a listed unread notification has returned
\* false after a failed update, and the notification is still unread
C26_Witness ==
    \E m \in marks :
        /\ m.kind = "one" /\ m.phase = "done" /\ m.res \in {"err", "throw"}
        /\ m.ret = "false"
        /\ unreadCount > 0
        /\ \E i \in 1..Len(notifications) :
              notifications[i].id = m.id /\ ~notifications[i].read

\* C27: unreadCount is the number of notifications of the local list whose
\* read flag is false, and it is never negative.
C27_CountIsUnread ==
    /\ unreadCount = Unread(notifications)
    /\ unreadCount >= 0

\* ------------------------------------------------------------------------
\* services/api
\* ------------------------------------------------------------------------
\* profile ids: the signed-in user, some other user, and no profile
Me == 1
Other == 2
NoUser == 0
Users == {Me, Other}

\* the functions that issue one request and throw its error
SimpleFns == {"updateTeam", "deleteTeam", "getTeamById", "getPlayers", "getMatches",
              "createMatch", "getPlayerRequests", "sendPlayerRequest",
              "updatePlayerRequest", "getNotifications", "markNotificationAsRead"}

ApiFns == SimpleFns \cup {"getTeams", "createTeam"}

\* supabase.from(<table>).<kind>(...) of a one-request function
OpOf(fn) ==
    CASE fn = "updateTeam" -> [table |-> "teams", kind |-> "update"]
      [] fn = "deleteTeam" -> [table |-> "teams", kind |-> "delete"]
      [] fn = "getTeamById" -> [table |-> "teams", kind |-> "select"]
      [] fn = "getPlayers" -> [table |-> "profiles", kind |-> "select"]
      [] fn = "getMatches" -> [table |-> "matches", kind |-> "select"]
      [] fn = "createMatch" -> [table |-> "matches", kind |-> "insert"]
      [] fn = "getPlayerRequests" -> [table |-> "player_requests", kind |-> "select"]
      [] fn = "sendPlayerRequest" -> [table |-> "player_requests", kind |-> "insert"]
      [] fn = "updatePlayerRequest" -> [table |-> "player_requests", kind |-> "update"]
      [] fn = "getNotifications" -> [table |-> "notifications", kind |-> "select"]
      [] fn = "markNotificationAsRead" -> [table |-> "notifications", kind |-> "update"]

\* one request as the backend saw it: the table, the operation, the row or
\* team it is about (0 when none), and whether it was answered with an error
Op(table, kind, key, err) == [table |-> table, kind |-> kind, key |-> key, err |-> err]

\* The start of a call of an api function: nothing has been requested yet.
NewCall(id, who, fn, arg, ctx) ==
    [id |-> id, who |-> who, fn |-> fn, arg |-> arg, ctx |-> ctx, pc |-> "op1",
     ops |-> <<>>, out |-> "run", val |-> <<>>, todo |-> {}]

TeamIds == {t.id : t \in dbTeams}

TeamRow(id) == CHOOSE t \in dbTeams : t.id = id

\* The backend's rule for deleting a team: only its creator may.
DeleteAllowed(id, requester) ==
    \A t \in dbTeams : t.id = id => t.created_by = requester

\* the teams table after the request of a one-request function was carried out
TeamsAfter(f) ==
    IF f.fn = "deleteTeam" THEN {t \in dbTeams : t.id # f.arg} ELSE dbTeams

\* The backend answers the request of a one-request function; the function
\* throws the error or returns the result.
ApiSimpleAnswer(f, err) ==
    /\ f \in calls
    /\ f.fn \in SimpleFns /\ f.pc = "op1"
    /\ (f.fn = "deleteTeam" /\ ~DeleteAllowed(f.arg, f.ctx)) => err
    /\ calls' = (calls \ {f}) \cup
         {[f EXCEPT !.ops = Append(@, Op(OpOf(f.fn).table, OpOf(f.fn).kind, f.arg, err)),
                    !.out = IF err THEN "thrown" ELSE "returned",
                    !.pc = "end"]}
    /\ dbTeams' = IF err THEN dbTeams ELSE TeamsAfter(f)
    /\ UNCHANGED <<dbMembers, teamSeq, callSeq>>
    /\ UNCHANGED nonApiVars

RECURSIVE SortDesc(_)
\* order('created_at', { ascending: false }): the newest team first
SortDesc(rows) ==
    IF rows = {} THEN <<>>
    ELSE LET top == CHOOSE t \in rows : \A u \in rows : u.id <= t.id
         IN <<top>> \o SortDesc(rows \ {top})

\* { ...team, team_members } as the page uses it
LocalTeam(row, members) ==
    [id |-> row.id, created_by |-> row.created_by, members |-> members]

RECURSIVE WithNoMembers(_)
WithNoMembers(rows) ==
    IF rows = <<>> THEN <<>>
    ELSE <<LocalTeam(Head(rows), {})>> \o WithNoMembers(Tail(rows))

\* a getTeams that reads the members with the teams, in one request
MemberSelectsJoined(rows) == {}

\* teamsData.map(async (team) => ...): one member select per returned team
MemberSelects(rows) == {rows[i].id : i \in 1..Len(rows)}

\* getTeams, first request: the select on teams. An error is thrown, no rows
\* are returned as [], otherwise the member selects start (Promise.all).
GetTeamsSelect(f, err) ==
    /\ f \in calls
    /\ f.fn = "getTeams" /\ f.pc = "op1"
    /\ LET rows == SortDesc(dbTeams) IN
       calls' = (calls \ {f}) \cup
         {[f EXCEPT !.ops = Append(@, Op("teams", "select", 0, err)),
                    !.out = IF err THEN "thrown"
                            ELSE IF MemberSelects(rows) = {} THEN "returned" ELSE "run",
                    !.pc = IF err \/ MemberSelects(rows) = {} THEN "end" ELSE "members",
                    !.val = IF err THEN <<>> ELSE WithNoMembers(rows),
                    !.todo = IF err THEN {} ELSE MemberSelects(rows)]}
    /\ UNCHANGED <<dbTeams, dbMembers, teamSeq, callSeq>>
    /\ UNCHANGED nonApiVars

MembersOf(t) == {m.user : m \in {x \in dbMembers : x.team = t}}

\* What getTeams does with the answer of one member select: the error is
\* logged and the team is returned without members.
MembersResult(t, err) == IF err THEN {} ELSE MembersOf(t)

\* getTeams, the select on team_members of one team.
GetTeamsMembers(f, t, err) ==
    /\ f \in calls
    /\ f.fn = "getTeams" /\ f.pc = "members"
    /\ t \in f.todo
    /\ calls' = (calls \ {f}) \cup
         {[f EXCEPT !.ops = Append(@, Op("team_members", "select", t, err)),
                    !.val = [i \in 1..Len(f.val) |->
                               IF f.val[i].id = t
                               THEN [f.val[i] EXCEPT !.members = MembersResult(t, err)]
                               ELSE f.val[i]],
                    !.todo = @ \ {t},
                    !.out = IF f.todo = {t} THEN "returned" ELSE "run",
                    !.pc = IF f.todo = {t} THEN "end" ELSE "members"]}
    /\ UNCHANGED <<dbTeams, dbMembers, teamSeq, callSeq>>
    /\ UNCHANGED nonApiVars

\* createTeam, step 1: the insert into teams. created_by is a required
\* column, so a row without it is refused; an error is thrown.
CreateTeamInsert(f, err) ==
    /\ f \in calls
    /\ f.fn = "createTeam" /\ f.pc = "op1"
    /\ f.arg = NoUser => err
    /\ LET row == [id |-> teamSeq + 1, created_by |-> f.arg] IN
       /\ calls' = (calls \ {f}) \cup
            {[f EXCEPT !.ops = Append(@, Op("teams", "insert", 0, err)),
                       !.out = IF err THEN "thrown" ELSE "run",
                       !.pc = IF err THEN "end" ELSE "member",
                       !.val = IF err THEN <<>> ELSE <<LocalTeam(row, {})>>]}
       /\ dbTeams' = IF err THEN dbTeams ELSE dbTeams \cup {row}
       /\ teamSeq' = IF err THEN teamSeq ELSE teamSeq + 1
    /\ UNCHANGED <<dbMembers, callSeq>>
    /\ UNCHANGED nonApiVars

\* a createTeam that throws the error of the member insert
AfterMemberInsertThrows(err) == IF err THEN "thrown" ELSE "returned"

\* How createTeam ends after the insert into team_members: its error is
\* logged and the team is returned all the same.
AfterMemberInsert(err) == "returned"

\* createTeam, step 2: the creator is added to team_members.
CreateTeamMember(f, err) ==
    /\ f \in calls
    /\ f.fn = "createTeam" /\ f.pc = "member"
    /\ calls' = (calls \ {f}) \cup
         {[f EXCEPT !.ops = Append(@, Op("team_members", "insert", f.val[1].id, err)),
                    !.out = AfterMemberInsert(err),
                    !.pc = "end"]}
    /\ dbMembers' = IF err THEN dbMembers
                    ELSE dbMembers \cup {[team |-> f.val[1].id, user |-> f.arg]}
    /\ UNCHANGED <<dbTeams, teamSeq, callSeq>>
    /\ UNCHANGED nonApiVars

\* the arguments a caller passes: a team id, or the creator of a new team
ArgsOf(fn) ==
    CASE fn \in {"updateTeam", "deleteTeam", "getTeamById"} -> 1..(MaxInitTeams + 1)
      [] fn = "createTeam" -> {NoUser, Me}
      [] OTHER -> {0}

\* Some component calls an api function, signed in as usr or signed out.
ApiInvoke(fn, arg, usr) ==
    /\ callSeq < MaxApiCalls
    /\ arg \in ArgsOf(fn)
    /\ callSeq' = callSeq + 1
    /\ calls' = calls \cup {NewCall(callSeq + 1, "direct", fn, arg, usr)}
    /\ UNCHANGED <<dbTeams, dbMembers, teamSeq>>
    /\ UNCHANGED nonApiVars

\* The tables with k teams, each created by a user, and some membership rows
Tables(k) ==
    /\ teamSeq = k
    /\ \E cb \in [1..k -> Users] :
         dbTeams = {[id |-> i, created_by |-> cb[i]] : i \in 1..k}
    /\ dbMembers \in SUBSET {[team |-> i, user |-> u] : i \in 1..k, u \in Users}

\* The start: some teams in the tables, no call made.
ApiInit ==
    /\ \E k \in 0..MaxInitTeams : Tables(k)
    /\ calls = {}
    /\ callSeq = 0

ApiNext ==
    \/ \E fn \in ApiFns, arg \in 0..(MaxInitTeams + 1), usr \in {NoUser, Me} :
         ApiInvoke(fn, arg, usr)
    \/ \E f \in calls, err \in BOOLEAN : ApiSimpleAnswer(f, err)
    \/ \E f \in calls, err \in BOOLEAN : GetTeamsSelect(f, err)
    \/ \E f \in calls, t \in TeamIds, err \in BOOLEAN :
         GetTeamsMembers(f, t, err)
    \/ \E f \in calls, err \in BOOLEAN : CreateTeamInsert(f, err)
    \/ \E f \in calls, err \in BOOLEAN : CreateTeamMember(f, err)

InitApi ==
    /\ ApiInit /\ ChatIdle /\ NotifIdle /\ TeamsIdle /\ AuthIdle
    /\ MatchIdle /\ SetupIdle /\ HooksIdle /\ route = "none"

SpecApi == InitApi /\ [][ApiNext]_vars

\* ---- claims about services/api ----

Finished(f) == f.out # "run"

TablesOf(f) == {f.ops[i].table : i \in 1..Len(f.ops)}

\* C9 as stated: every call of a data-access function issues exactly one
\* remote operation, against exactly one table.
C9_OneOperation ==
    \A f \in calls : Finished(f) => (Len(f.ops) = 1 /\ Cardinality(TablesOf(f)) = 1)

\* C9 amended: every function other than getTeams and createTeam issues
\* exactly one remote operation; getTeams issues one select on teams and, when
\* it returned rows, one select on team_members per returned team; createTeam
\* issues one insert into teams and, when that succeeded, one insert into
\* team_members.
C9_OperationsPerCall ==
    \A f \in calls : Finished(f) =>
        /\ Len(f.ops) >= 1
        /\ f.fn \in SimpleFns => Len(f.ops) = 1
        /\ f.fn = "getTeams" =>
              /\ f.ops[1].table = "teams" /\ f.ops[1].kind = "select"
              /\ Len(f.ops) = 1 + Len(f.val)
              /\ \A i \in 2..Len(f.ops) :
                    f.ops[i].table = "team_members" /\ f.ops[i].kind = "select"
              /\ \A i \in 1..Len(f.val) :
                    Cardinality({j \in 2..Len(f.ops) : f.ops[j].key = f.val[i].id}) = 1
        /\ f.fn = "createTeam" =>
              /\ f.ops[1].table = "teams" /\ f.ops[1].kind = "insert"
              /\ Len(f.ops) = (IF f.ops[1].err THEN 1 ELSE 2)
              /\ Len(f.ops) = 2 =>
                    f.ops[2].table = "team_members" /\ f.ops[2].kind = "insert"

\* a getTeams call that returned teams has finished, and so has a createTeam
\* call that created a team
C9_Witness ==
    \E f \in calls :
        /\ Finished(f) /\ Len(f.ops) >= 2
        /\ f.fn \in {"getTeams", "createTeam"}

Failed(f) == {i \in 1..Len(f.ops) : f.ops[i].err}

PageHandlers == {"fetchTeams", "handleSubmit", "TeamCard", "MyTeamDetail"}

\* the calls a handler of the page is waiting for, or has finished and
\* not yet looked at
PageCalls == {f \in calls : f.who \in PageHandlers /\ f.pc # "handled"}

\* team.team_members?.some(member => member.profile.id === profile.id)
IsMember(team, p) == p \in team.members

RECURSIVE FilterTeams(_, _, _)
\* processedTeams.filter(...): the teams p is a member of (mine), or the others
FilterTeams(list, p, mine) ==
    IF list = <<>> THEN <<>>
    ELSE IF IsMember(Head(list), p) = mine
         THEN <<Head(list)>> \o FilterTeams(Tail(list), p, mine)
         ELSE FilterTeams(Tail(list), p, mine)

ListIds(list) == {list[i].id : i \in 1..Len(list)}

\* how many entries of a list are the team with this id
CountOf(list, id) == Cardinality({i \in 1..Len(list) : list[i].id = id})

\* an id for a new call: the smallest one no call in progress has
FreeId == CHOOSE n \in 1..(Cardinality(calls) + 1) :
             /\ n \notin {f.id : f \in calls}
             /\ \A k \in 1..(n - 1) : k \in {f.id : f \in calls}

\* fetchTeams up to its await: setIsLoading(true), getTeams(). p is the
\* profile of the render that made this fetchTeams.
FetchTeamsStart(p) ==
    /\ isLoading' = TRUE
    /\ calls' = calls \cup {NewCall(FreeId, "fetchTeams", "getTeams", 0, p)}

\* The effect on [profile?.id]: it runs after the first render and after
\* every render in which the profile id changed.
TeamsEffect ==
    /\ effectDue
    /\ effectDue' = FALSE
    /\ FetchTeamsStart(tProfile)
    /\ UNCHANGED <<tProfile, teams, myTeams, isSubmitting, nTeamOps>>
    /\ UNCHANGED <<dbTeams, dbMembers, teamSeq, callSeq>>
    /\ UNCHANGED nonTeamVars

\* useAuth() delivers the profile some time after the page was shown.
ProfileLoaded ==
    /\ tProfile = NoUser
    /\ tProfile' = Me
    /\ effectDue' = TRUE
    /\ UNCHANGED <<teams, myTeams, isLoading, isSubmitting, nTeamOps>>
    /\ UNCHANGED apiVars
    /\ UNCHANGED nonTeamVars

\* setMyTeams of fetchTeams: only with a profile id
MyTeamsAfterFetch(f) ==
    IF f.out = "returned" /\ f.ctx # NoUser THEN FilterTeams(f.val, f.ctx, TRUE)
    ELSE myTeams

\* setTeams of fetchTeams: the teams of the others, or every team without a
\* profile id
TeamsAfterFetch(f) ==
    IF f.out # "returned" THEN teams
    ELSE IF f.ctx # NoUser THEN FilterTeams(f.val, f.ctx, FALSE)
    ELSE f.val

\* fetchTeams after its await: the lists are set from the result, an error
\* is reported; finally setIsLoading(false).
FetchTeamsDone(f) ==
    /\ f \in PageCalls
    /\ f.who = "fetchTeams" /\ f.pc = "end"
    /\ myTeams' = MyTeamsAfterFetch(f)
    /\ teams' = TeamsAfterFetch(f)
    /\ isLoading' = FALSE
    /\ calls' = calls \ {f}
    /\ UNCHANGED <<tProfile, isSubmitting, effectDue, nTeamOps>>
    /\ UNCHANGED <<dbTeams, dbMembers, teamSeq, callSeq>>
    /\ UNCHANGED nonTeamVars

\* CreateTeamForm.handleSubmit up to its await: the button is disabled while
\* a submission is under way; created_by is profile?.id.
SubmitStart ==
    /\ ~effectDue
    /\ ~isSubmitting
    /\ nTeamOps < MaxTeamOps
    /\ nTeamOps' = nTeamOps + 1
    /\ isSubmitting' = TRUE
    /\ calls' = calls \cup {NewCall(FreeId, "handleSubmit", "createTeam", tProfile, tProfile)}
    /\ UNCHANGED <<tProfile, teams, myTeams, isLoading, effectDue>>
    /\ UNCHANGED <<dbTeams, dbMembers, teamSeq, callSeq>>
    /\ UNCHANGED nonTeamVars

\* handleTeamCreated: setMyTeams(prev => [newTeam, ...prev])
HandleTeamCreated(prev, newTeam) == <<newTeam>> \o prev

\* handleSubmit after its await: on success the page is told of the new
\* team; an error is reported; finally setIsSubmitting(false).
SubmitDone(f) ==
    /\ f \in PageCalls
    /\ f.who = "handleSubmit" /\ f.pc = "end"
    /\ myTeams' = IF f.out = "returned" THEN HandleTeamCreated(myTeams, f.val[1])
                  ELSE myTeams
    /\ isSubmitting' = FALSE
    /\ calls' = calls \ {f}
    /\ UNCHANGED <<tProfile, teams, isLoading, effectDue, nTeamOps>>
    /\ UNCHANGED <<dbTeams, dbMembers, teamSeq, callSeq>>
    /\ UNCHANGED nonTeamVars

\* TeamCard shows Manage Team (and in it Delete) for a team of the Browse
\* list that is also in myTeams, or that the profile created.
CardManageable(team) ==
    \/ team.id \in ListIds(myTeams)
    \/ (tProfile # NoUser /\ team.created_by = tProfile)

\* the teams whose Delete button the page shows, per component
Deletable(comp) ==
    IF isLoading THEN {}
    ELSE IF comp = "TeamCard"
         THEN {teams[i].id : i \in {j \in 1..Len(teams) : CardManageable(teams[j])}}
         ELSE {myTeams[i].id : i \in {j \in 1..Len(myTeams) :
                                         tProfile = myTeams[j].created_by}}

\* handleDeleteTeam / handleDelete up to the await, the question confirmed
DeleteStart(comp, t) ==
    /\ ~effectDue
    /\ nTeamOps < MaxTeamOps
    /\ t \in Deletable(comp)
    /\ nTeamOps' = nTeamOps + 1
    /\ calls' = calls \cup {NewCall(FreeId, comp, "deleteTeam", t, tProfile)}
    /\ UNCHANGED <<tProfile, teams, myTeams, isLoading, isSubmitting, effectDue>>
    /\ UNCHANGED <<dbTeams, dbMembers, teamSeq, callSeq>>
    /\ UNCHANGED nonTeamVars

\* the teams whose edit form the page shows: the Manage Team dialog of a
\* card holds the edit form next to Delete; the detail view shows Team
\* Settings and the recruitment button for every team of myTeams
Updatable(comp) ==
    IF isLoading THEN {}
    ELSE IF comp = "TeamCard" THEN Deletable("TeamCard")
         ELSE ListIds(myTeams)

\* handleEditSubmit of a card, or the Team Settings form or the recruitment
\* button of the detail view, up to the await
UpdateStart(comp, t) ==
    /\ ~effectDue
    /\ nTeamOps < MaxTeamOps
    /\ t \in Updatable(comp)
    /\ nTeamOps' = nTeamOps + 1
    /\ calls' = calls \cup {NewCall(FreeId, comp, "updateTeam", t, tProfile)}
    /\ UNCHANGED <<tProfile, teams, myTeams, isLoading, isSubmitting, effectDue>>
    /\ UNCHANGED <<dbTeams, dbMembers, teamSeq, callSeq>>
    /\ UNCHANGED nonTeamVars

\* a delete handler that refreshes the page whatever deleteTeam did
AfterDeleteAlways(comp, out) ==
    IF comp = "TeamCard" THEN "reload" ELSE "fetchTeams"

\* What a delete or update handler does once deleteTeam or updateTeam has
\* finished: the card reloads the page and the detail view fetches the teams
\* again after a success; the catch block only shows a toast.
AfterDelete(comp, out) ==
    IF out # "returned" THEN "toast"
    ELSE IF comp = "TeamCard" THEN "reload" ELSE "fetchTeams"

\* window.location.reload(): the handlers of the old page never continue
Unloaded == calls \ PageCalls

\* the delete or update handler after its await
DeleteDone(f) ==
    /\ f \in PageCalls
    /\ f.who \in {"TeamCard", "MyTeamDetail"} /\ f.pc = "end"
    /\ LET then == AfterDelete(f.who, f.out)
           done == [f EXCEPT !.pc = "handled"] IN
       /\ then = "toast" =>
            /\ calls' = (calls \ {f}) \cup {done}
            /\ UNCHANGED <<tProfile, teams, myTeams, isLoading, isSubmitting,
                           effectDue>>
       /\ then = "fetchTeams" =>
            /\ isLoading' = TRUE
            /\ calls' = (calls \ {f}) \cup
                 {done, NewCall(FreeId, "fetchTeams", "getTeams", 0, f.ctx)}
            /\ UNCHANGED <<tProfile, teams, myTeams, isSubmitting, effectDue>>
       /\ then = "reload" =>
            /\ calls' = Unloaded \cup {done}
            /\ tProfile' = NoUser
            /\ teams' = <<>>
            /\ myTeams' = <<>>
            /\ isLoading' = TRUE
            /\ isSubmitting' = FALSE
            /\ effectDue' = TRUE
    /\ UNCHANGED nTeamOps
    /\ UNCHANGED <<dbTeams, dbMembers, teamSeq, callSeq>>
    /\ UNCHANGED nonTeamVars

\* The page right after it was shown: empty lists, isLoading, the effect due.
TeamsInit ==
    /\ tProfile \in {NoUser, Me}
    /\ teams = <<>>
    /\ myTeams = <<>>
    /\ isLoading = TRUE
    /\ isSubmitting = FALSE
    /\ effectDue = TRUE
    /\ nTeamOps = 0

TeamsNext ==
    \/ TeamsEffect
    \/ ProfileLoaded
    \/ \E f \in calls : FetchTeamsDone(f)
    \/ SubmitStart
    \/ \E f \in calls : SubmitDone(f)
    \/ \E comp \in {"TeamCard", "MyTeamDetail"}, t \in TeamIds : DeleteStart(comp, t)
    \/ \E comp \in {"TeamCard", "MyTeamDetail"}, t \in TeamIds : UpdateStart(comp, t)
    \/ \E f \in calls : DeleteDone(f)
    \/ \E f \in calls, err \in BOOLEAN : ApiSimpleAnswer(f, err)
    \/ \E f \in calls, err \in BOOLEAN : GetTeamsSelect(f, err)
    \/ \E f \in calls, t \in TeamIds, err \in BOOLEAN :
         GetTeamsMembers(f, t, err)
    \/ \E f \in calls, err \in BOOLEAN : CreateTeamInsert(f, err)
    \/ \E f \in calls, err \in BOOLEAN : CreateTeamMember(f, err)

\* the page is shown over tables with no team or one, with no call under way
InitTeams ==
    /\ TeamsInit
    /\ \E k \in {0, 1} : Tables(k)
    /\ calls = {}
    /\ callSeq = 0
    /\ ChatIdle /\ NotifIdle /\ AuthIdle
    /\ MatchIdle /\ SetupIdle /\ HooksIdle /\ route = "/teams"

SpecTeams == InitTeams /\ [][TeamsNext]_vars

\* ---- claims about the Teams page ----

\* the inserts into teams that a call has had carried out
TeamInserts(f) ==
    {i \in 1..Len(f.ops) :
        f.ops[i].table = "teams" /\ f.ops[i].kind = "insert" /\ ~f.ops[i].err}

\* C4, the row: a successful submission has inserted exactly one row
\* into teams, and its created_by is the id of the submitting profile.
C4_OneRowOfSubmitter ==
    [][\A f \in calls : (SubmitDone(f) /\ f.out = "returned") =>
          /\ Cardinality(TeamInserts(f)) = 1
          /\ f.ctx # NoUser /\ f.val[1].created_by = f.ctx]_vars

\* C4: a successful submission of the team-creation form inserts exactly one
\* row into teams whose created_by is the submitting profile, and when it
\* completes the new team is in myTeams exactly once.
C4_CreatedOnce ==
    [][\A f \in calls : (SubmitDone(f) /\ f.out = "returned") =>
          /\ Cardinality(TeamInserts(f)) = 1
          /\ f.ctx # NoUser /\ f.val[1].created_by = f.ctx
          /\ CountOf(myTeams', f.val[1].id) = 1]_vars

\* a delete asked for by a profile that did not create the team
NotOwn(f) ==
    /\ f.fn = "deleteTeam" /\ f.who \in {"TeamCard", "MyTeamDetail"}
    /\ \E t \in dbTeams : t.id = f.arg /\ t.created_by # f.ctx

\* C5: when the profile asks to delete a team it does not own, the backend
\* answers with an error and removes no row, and the handler that receives
\* the error leaves teams and myTeams as they were.
C5_RejectedDeleteChangesNothing ==
    [][\A f \in calls : NotOwn(f) =>
          /\ \A err \in BOOLEAN :
                ApiSimpleAnswer(f, err) => (err /\ dbTeams' = dbTeams)
          /\ DeleteDone(f) => (f.out = "thrown" /\ teams' = teams /\ myTeams' = myTeams)]_vars

\* a delete handler has dealt with the rejection of a delete of a team
\* the profile did not create
C5_Witness ==
    \E f \in calls : NotOwn(f) /\ f.pc = "handled" /\ f.out = "thrown"

\* the created_by of the entries the page shows for a team
ShownCreators(t) ==
    {teams[i].created_by : i \in {j \in 1..Len(teams) : teams[j].id = t}}
        \cup {myTeams[i].created_by : i \in {j \in 1..Len(myTeams) : myTeams[j].id = t}}

\* C18: the page starts updateTeam or deleteTeam for a team only when the
\* current profile's id equals that team's created_by.
C18_OnlyCreatorMutates ==
    [][\A f \in calls' \ calls :
          (f.fn \in {"updateTeam", "deleteTeam"} /\ f.who \in {"TeamCard", "MyTeamDetail"})
             => (tProfile # NoUser /\ ShownCreators(f.arg) = {tProfile})]_vars

\* ------------------------------------------------------------------------
\* AuthProvider (the session store), AuthGuard and the profile form
\* ------------------------------------------------------------------------
\* supabase.storage.from('avatars').getPublicUrl(filePath): the URL of the
\* n-th uploaded object; 0 stands for no avatar
PublicUrl(n) == 100 + n

\* fetchProfile up to its await
NewProfileFetch(uid, src) ==
    [id |-> CHOOSE n \in 1..(Cardinality(pfetch) + 1) : n \notin {f.id : f \in pfetch},
     uid |-> uid, src |-> src, phase |-> "run", data |-> 0]

\* The state of the provider when it is constructed; the auth client may
\* hold a persisted session.
AuthInit ==
    /\ user = NoUser
    /\ session = NoUser
    /\ profile = NullProfile
    /\ authIsLoading = TRUE
    /\ gotSession = FALSE
    /\ clientSession \in {NoUser, Me}
    /\ authEvq = <<>>
    /\ timers = 0
    /\ pfetch = {}
    /\ authCalls = {}
    /\ sub = NoSubmission
    /\ dbAvatar = 0
    /\ lastEvent = "none"
    /\ nAuthOps = 0

\* supabase.auth.getSession().then(...)
GetSessionResolved ==
    /\ ~gotSession
    /\ gotSession' = TRUE
    /\ session' = clientSession
    /\ user' = clientSession
    /\ pfetch' = IF clientSession # NoUser
                 THEN pfetch \cup {NewProfileFetch(clientSession, "getSession")}
                 ELSE pfetch
    /\ authIsLoading' = FALSE
    /\ UNCHANGED <<profile, clientSession, authEvq, timers, authCalls, sub, dbAvatar,
                   lastEvent, nAuthOps>>
    /\ UNCHANGED nonAuthVars

\* the profile after the listener has handled an event
ProfileAfterEvent(e) ==
    IF e.session = NoUser \/ e.event = "SIGNED_OUT" THEN NullProfile ELSE profile

\* The onAuthStateChange listener handles the next event.
AuthEvent ==
    /\ authEvq # <<>>
    /\ LET e == Head(authEvq) IN
       /\ session' = e.session
       /\ user' = e.session
       /\ timers' = IF e.session # NoUser THEN timers + 1 ELSE timers
       /\ profile' = ProfileAfterEvent(e)
       /\ lastEvent' = e.event
    /\ authEvq' = Tail(authEvq)
    /\ UNCHANGED <<authIsLoading, gotSession, clientSession, pfetch, authCalls, sub,
                   dbAvatar, nAuthOps>>
    /\ UNCHANGED nonAuthVars

\* setTimeout(() => fetchProfile(currentSession.user.id), 0) runs
TimerFires ==
    /\ timers > 0
    /\ timers' = timers - 1
    /\ pfetch' = pfetch \cup {NewProfileFetch(Me, "event")}
    /\ UNCHANGED <<user, session, profile, authIsLoading, gotSession, clientSession,
                   authEvq, authCalls, sub, dbAvatar, lastEvent, nAuthOps>>
    /\ UNCHANGED nonAuthVars

\* The backend answers the select of a fetchProfile.
FetchProfileServer(f, err) ==
    /\ f \in pfetch /\ f.phase = "run"
    /\ pfetch' = (pfetch \ {f}) \cup
         {[f EXCEPT !.phase = IF err THEN "err" ELSE "ok",
                    !.data = IF err THEN 0 ELSE dbAvatar]}
    /\ UNCHANGED <<user, session, profile, authIsLoading, gotSession, clientSession,
                   authEvq, timers, authCalls, sub, dbAvatar, lastEvent, nAuthOps>>
    /\ UNCHANGED nonAuthVars

\* fetchProfile after its await: if (error) return; if (data) setProfile(data)
ProfileAfterFetch(f) ==
    IF f.phase = "ok" THEN [id |-> f.uid, avatar_url |-> f.data] ELSE profile

FetchProfileDone(f) ==
    /\ f \in pfetch /\ f.phase # "run"
    /\ profile' = ProfileAfterFetch(f)
    /\ pfetch' = pfetch \ {f}
    /\ sub' = IF f.src = "update" /\ f.phase = "err"
              THEN [sub EXCEPT !.refreshErr = TRUE] ELSE sub
    /\ UNCHANGED <<user, session, authIsLoading, gotSession, clientSession, authEvq,
                   timers, authCalls, dbAvatar, lastEvent, nAuthOps>>
    /\ UNCHANGED nonAuthVars

\* the login / register / logout calls that have not ended
CallsInFlight == {c \in authCalls : c.phase # "done"}

\* login / register up to the await: setIsLoading(true); logout up to its
\* await. The forms and the navbar allow one call at a time.
AuthCallStart(kind) ==
    /\ nAuthOps < MaxAuthOps
    /\ CallsInFlight = {}
    /\ kind = "logout" => session # NoUser
    /\ nAuthOps' = nAuthOps + 1
    /\ authCalls' = authCalls \cup
         {[kind |-> kind, phase |-> "run", res |-> "none", requests |-> 1,
           notice |-> "none", nav |-> FALSE]}
    /\ authIsLoading' = IF kind = "logout" THEN authIsLoading ELSE TRUE
    /\ UNCHANGED <<user, session, profile, gotSession, clientSession, authEvq, timers,
                   pfetch, sub, dbAvatar, lastEvent>>
    /\ UNCHANGED nonAuthVars

\* The auth client carries the call out and answers with a result ("ok"),
\* with { error } ("err"), or by throwing ("throw"): a sign-in that succeeds
\* stores the session and emits SIGNED_IN (a sign-up may leave the user to
\* confirm an address and give no session); a sign-out drops it and emits
\* SIGNED_OUT.
AuthCallServer(c, res, withSession) ==
    /\ c \in authCalls /\ c.phase = "run"
    /\ (c.kind # "register" \/ res # "ok") => withSession
    /\ authCalls' = (authCalls \ {c}) \cup {[c EXCEPT !.phase = "answered", !.res = res]}
    /\ clientSession' = IF res # "ok" \/ ~withSession THEN clientSession
                        ELSE IF c.kind = "logout" THEN NoUser ELSE Me
    /\ authEvq' = IF res # "ok" \/ ~withSession THEN authEvq
                  ELSE IF c.kind = "logout"
                       THEN Append(authEvq, [event |-> "SIGNED_OUT", session |-> NoUser])
                       ELSE Append(authEvq, [event |-> "SIGNED_IN", session |-> Me])
    /\ UNCHANGED <<user, session, profile, authIsLoading, gotSession, timers, pfetch,
                   sub, dbAvatar, lastEvent, nAuthOps>>
    /\ UNCHANGED nonAuthVars

\* login / register after the await: finally setIsLoading(false); logout
\* only navigates
LoadingAfterCall(c) == IF c.kind = "logout" THEN authIsLoading ELSE FALSE

\* Whether the call takes its catch block: login and register throw the
\* returned error themselves; logout does not look at what signOut returned.
CallFails(kind, res) ==
    IF kind = "logout" THEN res = "throw" ELSE res # "ok"

\* login / register / logout after the await: the success toast and
\* navigate(...), or the error toast of the catch block.
AuthCallDone(c) ==
    /\ c \in authCalls /\ c.phase = "answered"
    /\ authIsLoading' = LoadingAfterCall(c)
    /\ authCalls' = (authCalls \ {c}) \cup
         {[c EXCEPT !.phase = "done",
                    !.notice = IF CallFails(c.kind, c.res) THEN "error" ELSE "success",
                    !.nav = ~CallFails(c.kind, c.res)]}
    /\ UNCHANGED <<user, session, profile, gotSession, clientSession, authEvq, timers,
                   pfetch, sub, dbAvatar, lastEvent, nAuthOps>>
    /\ UNCHANGED nonAuthVars

\* AuthGuard: the spinner while isLoading, then /login without a session
GuardRedirects == ~authIsLoading /\ session = NoUser

\* AuthGuard renders the guarded page (Outlet)
GuardPasses == ~authIsLoading /\ session # NoUser

\* Profile.onSubmit up to its first await. avatarPath starts as the avatar of
\* the profile shown; with a file the upload is awaited, without one the
\* update of updateProfile is.
SubmitProfile(file) ==
    /\ sub.phase = "idle"
    /\ GuardPasses /\ user # NoUser
    /\ sub' = [sub EXCEPT !.phase = IF file THEN "upload" ELSE "update",
                          !.file = file,
                          !.path = profile.avatar_url,
                          !.usr = user,
                          !.called = ~file]
    /\ UNCHANGED <<user, session, profile, authIsLoading, gotSession, clientSession,
                   authEvq, timers, pfetch, authCalls, dbAvatar, lastEvent, nAuthOps>>
    /\ UNCHANGED nonAuthVars

\* The storage answers the upload.
UploadServer(err) ==
    /\ sub.phase = "upload"
    /\ sub' = [sub EXCEPT !.phase = IF err THEN "uploadErr" ELSE "uploadOk"]
    /\ UNCHANGED <<user, session, profile, authIsLoading, gotSession, clientSession,
                   authEvq, timers, pfetch, authCalls, dbAvatar, lastEvent, nAuthOps>>
    /\ UNCHANGED nonAuthVars

\* onSubmit after the upload: an upload error is thrown to the catch block;
\* otherwise avatarPath is the public URL and updateProfile is called, which
\* returns at once without a user (the user of the render onSubmit was made
\* in) and sends the update otherwise.
UploadDone ==
    /\ sub.phase \in {"uploadErr", "uploadOk"}
    /\ sub' = IF sub.phase = "uploadErr"
              THEN [sub EXCEPT !.phase = "failed", !.notice = "error"]
              ELSE IF sub.usr = NoUser
              THEN [sub EXCEPT !.phase = "done", !.path = PublicUrl(1),
                               !.upNotice = "error", !.notice = "success",
                               !.nav = TRUE]
              ELSE [sub EXCEPT !.phase = "update", !.path = PublicUrl(1),
                               !.called = TRUE]
    /\ UNCHANGED <<user, session, profile, authIsLoading, gotSession, clientSession,
                   authEvq, timers, pfetch, authCalls, dbAvatar, lastEvent, nAuthOps>>
    /\ UNCHANGED nonAuthVars

\* ...(avatarPath && { avatar_url: avatarPath }) written to the row
AvatarAfterUpdate(path) == IF path # 0 THEN path ELSE dbAvatar

\* The backend answers the update of the profiles row.
UpdateServer(err) ==
    /\ sub.phase = "update"
    /\ sub' = [sub EXCEPT !.phase = IF err THEN "updateErr" ELSE "updateOk"]
    /\ dbAvatar' = IF err THEN dbAvatar ELSE AvatarAfterUpdate(sub.path)
    /\ UNCHANGED <<user, session, profile, authIsLoading, gotSession, clientSession,
                   authEvq, timers, pfetch, authCalls, lastEvent, nAuthOps>>
    /\ UNCHANGED nonAuthVars

\* the toast of updateProfile: success after the update, the error of the
\* catch block otherwise
UpdateNotice(phase) == IF phase = "updateErr" THEN "error" ELSE "success"

\* updateProfile after its await, and with it the end of onSubmit: after a
\* successful update fetchProfile is started and not awaited; an update error
\* is caught inside updateProfile, so onSubmit takes its success path in
\* both cases.
UpdateDone ==
    /\ sub.phase \in {"updateErr", "updateOk"}
    /\ sub' = [sub EXCEPT !.phase = "done", !.updateErr = (sub.phase = "updateErr"),
                          !.upNotice = UpdateNotice(sub.phase),
                          !.notice = "success", !.nav = TRUE]
    /\ pfetch' = IF sub.phase = "updateOk"
                 THEN pfetch \cup {NewProfileFetch(sub.usr, "update")}
                 ELSE pfetch
    /\ UNCHANGED <<user, session, profile, authIsLoading, gotSession, clientSession,
                   authEvq, timers, authCalls, dbAvatar, lastEvent, nAuthOps>>
    /\ UNCHANGED nonAuthVars

AuthNext ==
    \/ GetSessionResolved
    \/ AuthEvent
    \/ TimerFires
    \/ \E f \in pfetch, err \in BOOLEAN : FetchProfileServer(f, err)
    \/ \E f \in pfetch : FetchProfileDone(f)
    \/ \E kind \in {"login", "register", "logout"} : AuthCallStart(kind)
    \/ \E c \in authCalls, res \in {"ok", "err", "throw"}, withSession \in BOOLEAN :
         AuthCallServer(c, res, withSession)
    \/ \E c \in authCalls : AuthCallDone(c)
    \/ \E file \in BOOLEAN : SubmitProfile(file)
    \/ \E err \in BOOLEAN : UploadServer(err)
    \/ UploadDone
    \/ \E err \in BOOLEAN : UpdateServer(err)
    \/ UpdateDone

InitAuth ==
    /\ AuthInit /\ ChatIdle /\ NotifIdle /\ ApiIdle /\ TeamsIdle
    /\ MatchIdle /\ SetupIdle /\ HooksIdle /\ route = "/login"

SpecAuth == InitAuth /\ [][AuthNext]_vars

\* ---- claims about the session store ----

\* nothing is under way in the session store
AuthQuiet ==
    /\ gotSession /\ authEvq = <<>> /\ timers = 0 /\ pfetch = {} /\ authCalls = {}

\* C6: once a submission with an image file has completed without error (the
\* upload, the update and the refresh of the profile all answered without
\* error) and nothing is under way any more, the profile of the signed-in
\* user has avatar_url equal to the public URL of the uploaded object.
C6_AvatarIsUploadedUrl ==
    ( /\ sub.phase = "done" /\ sub.file
      /\ ~sub.updateErr /\ ~sub.refreshErr
      /\ nAuthOps = 0
      /\ AuthQuiet )
    => profile.avatar_url = PublicUrl(1)

\* C7: after the listener has handled a sign-out event and until it handles
\* the next sign-in event, the stored profile is null.
C7_SignOutClearsProfile ==
    lastEvent = "SIGNED_OUT" => profile = NullProfile

\* C8: until getSession() has resolved isLoading is true, so AuthGuard does
\* not redirect to /login.
C8_LoadingUntilSessionKnown ==
    ~gotSession => (authIsLoading /\ ~GuardRedirects)

\* C30: whenever the stored profile is not null, its id is the id of the
\* stored user.
C30_ProfileOfUser ==
    profile # NullProfile => profile.id = user

\* C15: a session-store operation whose backend call failed ends with an
\* error notice, without its success notice and without its navigation,
\* having issued the call once.
C15_FailureShowsError ==
    /\ \A c \in authCalls :
          (c.phase = "done" /\ c.res # "ok") =>
              (c.notice = "error" /\ ~c.nav /\ c.requests = 1)
    /\ (sub.phase = "done" /\ sub.updateErr) => sub.upNotice = "error"

\* C17: updateProfile sends its update only while a user is signed in, and
\* the row the update names is the row of the user signed in at that time.
C17_OnlySignedInUser ==
    [][(~sub.called /\ sub'.called) => (user # NoUser /\ sub'.usr = user)]_vars

\* C20: the profile page shows its success notice and navigates to
\* /dashboard only when the update of the row succeeded; when the upload or
\* the update failed it shows an error notice and does not navigate.
C20_SuccessOnlyAfterUpdate ==
    /\ (sub.notice = "success" \/ sub.nav) => (sub.phase = "done" /\ ~sub.updateErr)
    /\ (sub.phase = "failed" \/ (sub.phase = "done" /\ sub.updateErr)) =>
          (sub.notice = "error" /\ ~sub.nav)

\* ------------------------------------------------------------------------
\* pages/Matches: ScheduleMatchForm
\* ------------------------------------------------------------------------
\* the calls handleSubmit of the match form is waiting for
MatchCalls == {f \in calls : f.who = "ScheduleMatchForm" /\ f.pc # "handled"}

\* handleSubmit up to its await, with a date chosen: setIsSubmitting(true),
\* createMatch(matchData) with created_by: profile?.id. The button is
\* disabled while a submission is under way.
MatchSubmitStart ==
    /\ ~mIsSubmitting
    /\ nMatchOps < MaxMatchOps
    /\ nMatchOps' = nMatchOps + 1
    /\ mIsSubmitting' = TRUE
    /\ calls' = calls \cup
         {NewCall(FreeId, "ScheduleMatchForm", "createMatch", 0, mProfile)}
    /\ UNCHANGED <<route, mProfile, upcomingMatches>>
    /\ UNCHANGED <<dbTeams, dbMembers, teamSeq, callSeq>>
    /\ UNCHANGED nonMatchVars

\* isSubmitting once the try block has been left
SubmittingAfterTryOnly(out) == out = "thrown"

\* finally { setIsSubmitting(false) }
SubmittingAfter(out) == FALSE

\* handleSubmit with the date cleared: new Date(undefined).toISOString()
\* throws inside the try block, before any request; the catch block reports
\* it and the finally block runs in the same turn.
MatchSubmitInvalid ==
    /\ ~mIsSubmitting
    /\ nMatchOps < MaxMatchOps
    /\ nMatchOps' = nMatchOps + 1
    /\ mIsSubmitting' = SubmittingAfter("thrown")
    /\ calls' = calls \cup
         {[NewCall(FreeId, "ScheduleMatchForm", "createMatch", 0, mProfile)
             EXCEPT !.out = "thrown", !.pc = "handled"]}
    /\ UNCHANGED <<route, mProfile, upcomingMatches>>
    /\ UNCHANGED <<dbTeams, dbMembers, teamSeq, callSeq>>
    /\ UNCHANGED nonMatchVars

\* handleMatchCreated: setUpcomingMatches(prev => [newMatch, ...prev]); a
\* match is written as the created_by it was made with
HandleMatchCreated(prev, newMatch) == <<newMatch>> \o prev

\* handleSubmit after its await: on success the page is told of the match;
\* an error is reported; finally setIsSubmitting(false).
MatchSubmitDone(f) ==
    /\ f \in MatchCalls
    /\ f.pc = "end"
    /\ upcomingMatches' = IF f.out = "returned"
                          THEN HandleMatchCreated(upcomingMatches, f.ctx)
                          ELSE upcomingMatches
    /\ mIsSubmitting' = SubmittingAfter(f.out)
    /\ calls' = (calls \ {f}) \cup {[f EXCEPT !.pc = "handled"]}
    /\ UNCHANGED <<route, mProfile, nMatchOps>>
    /\ UNCHANGED <<dbTeams, dbMembers, teamSeq, callSeq>>
    /\ UNCHANGED nonMatchVars

\* the form right after it was shown
MatchInit ==
    /\ mProfile \in {NoUser, Me}
    /\ mIsSubmitting = FALSE
    /\ upcomingMatches = <<>>
    /\ nMatchOps = 0

InitMatches ==
    /\ MatchInit /\ ApiIdle
    /\ ChatIdle /\ NotifIdle /\ TeamsIdle /\ AuthIdle
    /\ SetupIdle /\ HooksIdle /\ route = "/matches"

\* ------------------------------------------------------------------------
\* supabase/functions/setup-storage: the serve handler
\* ------------------------------------------------------------------------
\* return new Response(...): the run ends with this status and body; the
\* body of an error response is the message of the error that was thrown,
\* written here as the request that failed
Respond(status, body) == [setup EXCEPT !.pc = "done", !.status = status, !.body = body]

\* A request arrives. A CORS preflight is answered at once with status 200
\* and no body; any other request enters the try block and lists the buckets.
SetupReceive(method) ==
    /\ setup.pc = "start"
    /\ setup' = IF method = "OPTIONS" THEN Respond(200, "none")
                ELSE [setup EXCEPT !.pc = "listBuckets"]
    /\ UNCHANGED <<buckets, dbChats, dbProfiles, dbParticipants>>
    /\ UNCHANGED nonSetupVars

\* listBuckets() answers: an error is thrown to the catch block; the avatars
\* bucket is created only if no bucket has that name.
SetupListBuckets(err) ==
    /\ setup.pc = "listBuckets"
    /\ setup' = IF err THEN Respond(400, "listBuckets")
                ELSE IF "avatars" \in buckets THEN [setup EXCEPT !.pc = "selectChat"]
                ELSE [setup EXCEPT !.pc = "createBucket"]
    /\ UNCHANGED <<buckets, dbChats, dbProfiles, dbParticipants>>
    /\ UNCHANGED nonSetupVars

\* createBucket('avatars', ...) answers
SetupCreateBucket(err) ==
    /\ setup.pc = "createBucket"
    /\ buckets' = IF err THEN buckets ELSE buckets \cup {"avatars"}
    /\ setup' = IF err THEN Respond(400, "createBucket")
                ELSE [setup EXCEPT !.pc = "selectChat"]
    /\ UNCHANGED <<dbChats, dbProfiles, dbParticipants>>
    /\ UNCHANGED nonSetupVars

\* from('chats').select('id').eq('name', ...).single() answers: single() is
\* an error unless exactly one row has the name
SetupSelectChat(err) ==
    /\ setup.pc = "selectChat"
    /\ dbChats # 1 => err
    /\ setup' = IF err THEN Respond(400, "chats")
                ELSE [setup EXCEPT !.pc = "selectUsers"]
    /\ UNCHANGED <<buckets, dbChats, dbProfiles, dbParticipants>>
    /\ UNCHANGED nonSetupVars

\* What follows the loop body for users[i]: the next user, or the success
\* response after the last one. errs is what the body wrote with
\* console.error.
AfterUser(i, users, errs) ==
    IF i < Len(users)
    THEN [setup EXCEPT !.pc = "check", !.users = users, !.i = i + 1,
                       !.logged = @ \cup errs]
    ELSE [Respond(200, "success") EXCEPT !.users = users, !.i = i,
                                         !.logged = @ \cup errs]

\* from('profiles').select('id') answers: the rows, in the order of their
\* ids, are what the loop runs over
SetupSelectUsers(err) ==
    /\ setup.pc = "selectUsers"
    /\ setup' = IF err THEN Respond(400, "profiles")
                ELSE AfterUser(0, [k \in 1..Cardinality(dbProfiles) |-> k], {})
    /\ UNCHANGED <<buckets, dbChats, dbProfiles, dbParticipants>>
    /\ UNCHANGED nonSetupVars

\* The select of the user's participant row answers: maybeSingle() is an
\* error when more than one row matches; after an error the loop goes on to
\* the next user (continue); a user with a row needs nothing.
SetupCheck(err) ==
    /\ setup.pc = "check"
    /\ dbParticipants[setup.users[setup.i]] > 1 => err
    /\ setup' = IF ~err /\ dbParticipants[setup.users[setup.i]] = 0
                THEN [setup EXCEPT !.pc = "insert"]
                ELSE AfterUser(setup.i, setup.users,
                               IF err THEN {<<"check", setup.users[setup.i]>>} ELSE {})
    /\ UNCHANGED <<buckets, dbChats, dbProfiles, dbParticipants>>
    /\ UNCHANGED nonSetupVars

\* The insert of the participant row answers; an error is logged only.
SetupInsert(err) ==
    /\ setup.pc = "insert"
    /\ dbParticipants' = IF err THEN dbParticipants
                         ELSE [dbParticipants EXCEPT ![setup.users[setup.i]] = @ + 1]
    /\ setup' = AfterUser(setup.i, setup.users,
                           IF err THEN {<<"insert", setup.users[setup.i]>>} ELSE {})
    /\ UNCHANGED <<buckets, dbChats, dbProfiles>>
    /\ UNCHANGED nonSetupVars

\* Before a run: the bucket may exist, the default chat may exist, and each
\* profile has at most one participant row in the default chat.
SetupInit ==
    /\ buckets \in {{}, {"avatars"}}
    /\ dbChats \in {0, 1}
    /\ \E n \in 1..MaxProfiles :
         /\ dbProfiles = 1..n
         /\ dbParticipants \in [1..n -> {0, 1}]
    /\ setup = [pc |-> "start", users |-> <<>>, i |-> 0, status |-> 0, body |-> "none",
                logged |-> {}]

SetupNext ==
    \/ \E method \in {"OPTIONS", "POST"} : SetupReceive(method)
    \/ \E err \in BOOLEAN : SetupListBuckets(err)
    \/ \E err \in BOOLEAN : SetupCreateBucket(err)
    \/ \E err \in BOOLEAN : SetupSelectChat(err)
    \/ \E err \in BOOLEAN : SetupSelectUsers(err)
    \/ \E err \in BOOLEAN : SetupCheck(err)
    \/ \E err \in BOOLEAN : SetupInsert(err)

InitSetup ==
    /\ SetupInit
    /\ ChatIdle /\ NotifIdle /\ ApiIdle /\ TeamsIdle /\ AuthIdle
    /\ MatchIdle /\ HooksIdle /\ route = "none"

SpecSetup == InitSetup /\ [][SetupNext]_vars

\* C16: when the run answers with the success response (status 200), every
\* profile has exactly one participant row in the default chat (no profile
\* had more than one before the run).
C16_EveryProfileOnce ==
    (setup.pc = "done" /\ setup.status = 200 /\ setup.body = "success")
       => \A u \in dbProfiles : dbParticipants[u] = 1

\* C16, second half: a run adds a participant row only for a profile that
\* had none.
C16_AddsOnlyMissing ==
    [][\A u \in dbProfiles :
          dbParticipants'[u] # dbParticipants[u]
             => (dbParticipants[u] = 0 /\ dbParticipants'[u] = 1)]_vars

\* ------------------------------------------------------------------------
\* The client with one of its pages shown: the Teams page, the Matches page
\* or the login page over the session store.
\* ------------------------------------------------------------------------
InitForms == InitTeams \/ InitMatches \/ InitAuth

FormsNext ==
    \/ (route = "/teams" /\ TeamsEffect)
    \/ (route = "/teams" /\ ProfileLoaded)
    \/ (route = "/teams" /\ \E f \in calls : FetchTeamsDone(f))
    \/ (route = "/teams" /\ SubmitStart)
    \/ (route = "/teams" /\ \E f \in calls : SubmitDone(f))
    \/ (route = "/teams" /\
          \E comp \in {"TeamCard", "MyTeamDetail"}, t \in TeamIds :
             DeleteStart(comp, t))
    \/ (route = "/teams" /\
          \E comp \in {"TeamCard", "MyTeamDetail"}, t \in TeamIds :
             UpdateStart(comp, t))
    \/ (route = "/teams" /\ \E f \in calls : DeleteDone(f))
    \/ (route = "/teams" /\
          \E f \in calls, err \in BOOLEAN :
             ApiSimpleAnswer(f, err))
    \/ (route = "/teams" /\
          \E f \in calls, err \in BOOLEAN :
             GetTeamsSelect(f, err))
    \/ (route = "/teams" /\
          \E f \in calls, t \in TeamIds, err \in BOOLEAN :
             GetTeamsMembers(f, t, err))
    \/ (route = "/teams" /\
          \E f \in calls, err \in BOOLEAN :
             CreateTeamInsert(f, err))
    \/ (route = "/teams" /\
          \E f \in calls, err \in BOOLEAN :
             CreateTeamMember(f, err))
    \/ (route = "/matches" /\ MatchSubmitStart)
    \/ (route = "/matches" /\ MatchSubmitInvalid)
    \/ (route = "/matches" /\
          \E f \in calls, err \in BOOLEAN :
             ApiSimpleAnswer(f, err))
    \/ (route = "/matches" /\ \E f \in calls : MatchSubmitDone(f))
    \/ (route = "/login" /\ GetSessionResolved)
    \/ (route = "/login" /\ AuthEvent)
    \/ (route = "/login" /\ TimerFires)
    \/ (route = "/login" /\
          \E f \in pfetch, err \in BOOLEAN :
             FetchProfileServer(f, err))
    \/ (route = "/login" /\ \E f \in pfetch : FetchProfileDone(f))
    \/ (route = "/login" /\
          \E kind \in {"login", "register", "logout"} :
             AuthCallStart(kind))
    \/ (route = "/login" /\
          \E c \in authCalls, res \in {"ok", "err", "throw"}, withSession \in BOOLEAN :
             AuthCallServer(c, res, withSession))
    \/ (route = "/login" /\ \E c \in authCalls : AuthCallDone(c))
    \/ (route = "/login" /\ \E file \in BOOLEAN : SubmitProfile(file))
    \/ (route = "/login" /\ \E err \in BOOLEAN : UploadServer(err))
    \/ (route = "/login" /\ UploadDone)
    \/ (route = "/login" /\ \E err \in BOOLEAN : UpdateServer(err))
    \/ (route = "/login" /\ UpdateDone)

SpecForms == InitForms /\ [][FormsNext]_vars

\* C14: every handler that raises a loading or submitting flag lowers it
\* once its remote call has finished, whatever the outcome: when no
\* fetchTeams is under way (and none is due) isLoading is false, when no
\* handleSubmit of CreateTeamForm or of ScheduleMatchForm is under way its
\* isSubmitting is false, and when no login or register is under way and
\* the first session is known the provider's isLoading is false.
C14_FlagsLowered ==
    /\ (~effectDue /\ ~\E f \in PageCalls : f.who = "fetchTeams") => ~isLoading
    /\ (~\E f \in PageCalls : f.who = "handleSubmit") => ~isSubmitting
    /\ MatchCalls = {} => ~mIsSubmitting
    /\ (gotSession /\ ~\E c \in CallsInFlight : c.kind \in {"login", "register"})
          => ~authIsLoading

\* C14 happens: a submission of the match form has ended in the failure
\* outcome after its remote call, and the flag is down
C14_Witness ==
    /\ ~mIsSubmitting
    /\ \E f \in calls :
          /\ f.who = "ScheduleMatchForm" /\ f.pc = "handled"
          /\ f.out = "thrown" /\ Len(f.ops) = 1

\* ------------------------------------------------------------------------
\* hooks/use-player-requests: sendRequest and respondToRequest
\* ------------------------------------------------------------------------
\* A call of a function of the hooks. usr is the user of the render the
\* function belongs to; ret is what the call returned, "none" while it runs.
HookCall(fn, arg, accept, pc, ret) ==
    [id |-> Cardinality(hCalls) + 1, fn |-> fn, usr |-> hUser, arg |-> arg,
     accept |-> accept, pc |-> pc, ret |-> ret, row |-> 0, peer |-> 0]

\* calls made so far, the fetches of the chat list apart
HookOps == Cardinality({f \in hCalls : f.fn # "fetchChats"})

\* the call f goes on to pc, or returns ret when pc is "done"
HookStep(f, pc, ret) ==
    hCalls' = (hCalls \ {f}) \cup {[f EXCEPT !.pc = pc, !.ret = ret]}

\* the rows of player_requests sent by s to r
RequestsOf(s, r) == {q \in dbRequests : q.sender = s /\ q.receiver = r}

\* ids the backend gives to new rows: above every id of the table
NextRequestId == 3 + Cardinality({q \in dbRequests : q.id > 2})

\* sendRequest up to its first await: without a user it returns null
SendRequestStart(receiver) ==
    /\ HookOps < MaxHookOps
    /\ hCalls' = hCalls \cup
         {IF hUser = NoUser THEN HookCall("sendRequest", receiver, FALSE, "done", "null")
          ELSE HookCall("sendRequest", receiver, FALSE, "check", "none")}
    /\ UNCHANGED <<hUser, dbRequests, dbNotices, dbChatRows, dbJoined, chats>>
    /\ UNCHANGED nonHookVars

\* The select of the existing request answers; maybeSingle() gives the row
\* when exactly one matches, null when none does and an error when several
\* do. Only data is read: with an error in the answer the call goes on as if
\* no request existed; an exception goes to the catch block.
SendRequestCheck(f, res) ==
    /\ f \in hCalls /\ f.fn = "sendRequest" /\ f.pc = "check"
    /\ IF res = "throw" \/ (res = "ok" /\ Cardinality(RequestsOf(f.usr, f.arg)) = 1)
       THEN HookStep(f, "done", "null")
       ELSE HookStep(f, "insert", "none")
    /\ UNCHANGED <<hUser, dbRequests, dbNotices, dbChatRows, dbJoined, chats>>
    /\ UNCHANGED nonHookVars

\* The insert of the request answers: an error is thrown to the catch block
SendRequestInsert(f, err) ==
    /\ f \in hCalls /\ f.fn = "sendRequest" /\ f.pc = "insert"
    /\ IF err
       THEN /\ HookStep(f, "done", "null")
            /\ UNCHANGED dbRequests
       ELSE /\ hCalls' = (hCalls \ {f}) \cup
                  {[f EXCEPT !.pc = "notify", !.row = NextRequestId, !.peer = f.arg]}
            /\ dbRequests' = dbRequests \cup
                  {[id |-> NextRequestId, sender |-> f.usr, receiver |-> f.arg,
                    status |-> "pending"]}
    /\ UNCHANGED <<hUser, dbNotices, dbChatRows, dbJoined, chats>>
    /\ UNCHANGED nonHookVars

\* The insert of a notification answers (for the receiver of a new request,
\* for the sender of an answered one); its result is not read, an exception
\* goes to the catch block.
HookNotify(f, res) ==
    /\ f \in hCalls /\ f.fn \in {"sendRequest", "respondToRequest"} /\ f.pc = "notify"
    /\ dbNotices' = IF res = "ok"
                    THEN dbNotices \cup {[user |-> f.peer, ref |-> f.row, by |-> f.id]}
                    ELSE dbNotices
    /\ HookStep(f, "done",
                IF f.fn = "sendRequest" THEN (IF res = "throw" THEN "null" ELSE "data")
                ELSE (IF res = "throw" THEN "false" ELSE "true"))
    /\ UNCHANGED <<hUser, dbRequests, dbChatRows, dbJoined, chats>>
    /\ UNCHANGED nonHookVars

\* respondToRequest up to its first await: without a user it returns false
RespondStart(requestId, accept) ==
    /\ HookOps < MaxHookOps
    /\ hCalls' = hCalls \cup
         {IF hUser = NoUser
          THEN HookCall("respondToRequest", requestId, accept, "done", "false")
          ELSE HookCall("respondToRequest", requestId, accept, "select", "none")}
    /\ UNCHANGED <<hUser, dbRequests, dbNotices, dbChatRows, dbJoined, chats>>
    /\ UNCHANGED nonHookVars

\* a check that lets every user answer an existing request
RespondAllowedAny(requests, usr) == requests # {}

\* !(!request || request.receiver_id !== user.id), request being the data of
\* single(): requests holds the rows the select returned
RespondAllowed(requests, usr) ==
    /\ Cardinality(requests) = 1
    /\ \A q \in requests : q.receiver = usr

\* The select of the request answers; with an error data is null.
RespondSelect(f, res) ==
    /\ f \in hCalls /\ f.fn = "respondToRequest" /\ f.pc = "select"
    /\ LET requests == IF res = "ok" THEN {q \in dbRequests : q.id = f.arg} ELSE {} IN
       IF res # "throw" /\ RespondAllowed(requests, f.usr)
       THEN hCalls' = (hCalls \ {f}) \cup
              {[f EXCEPT !.pc = "update", !.row = f.arg,
                         !.peer = (CHOOSE q \in requests : TRUE).sender]}
       ELSE HookStep(f, "done", "false")
    /\ UNCHANGED <<hUser, dbRequests, dbNotices, dbChatRows, dbJoined, chats>>
    /\ UNCHANGED nonHookVars

\* The update of the status answers: an error is thrown to the catch block
RespondUpdate(f, err) ==
    /\ f \in hCalls /\ f.fn = "respondToRequest" /\ f.pc = "update"
    /\ IF err
       THEN /\ HookStep(f, "done", "false")
            /\ UNCHANGED dbRequests
       ELSE /\ HookStep(f, "notify", "none")
            /\ dbRequests' =
                 {IF q.id = f.arg
                  THEN [q EXCEPT !.status = IF f.accept THEN "accepted" ELSE "rejected"]
                  ELSE q : q \in dbRequests}
    /\ UNCHANGED <<hUser, dbNotices, dbChatRows, dbJoined, chats>>
    /\ UNCHANGED nonHookVars

\* usePlayerRequests in a component with or without a user. The table holds
\* a pending request to the user and one by the user, or not.
PlayerRequestsInit ==
    /\ hUser \in {NoUser, Me}
    /\ hCalls = {}
    /\ dbRequests \in SUBSET
         {[id |-> 1, sender |-> Other, receiver |-> Me, status |-> "pending"],
          [id |-> 2, sender |-> Me, receiver |-> Other, status |-> "pending"]}
    /\ dbNotices = {}
    /\ dbChatRows = {}
    /\ dbJoined = <<>>
    /\ chats = <<>>

PlayerRequestsNext ==
    \/ SendRequestStart(Other)
    \/ \E f \in hCalls, res \in {"ok", "err", "throw"} : SendRequestCheck(f, res)
    \/ \E f \in hCalls, err \in BOOLEAN : SendRequestInsert(f, err)
    \/ \E f \in hCalls, res \in {"ok", "err", "throw"} : HookNotify(f, res)
    \/ \E requestId \in 1..3, accept \in BOOLEAN : RespondStart(requestId, accept)
    \/ \E f \in hCalls, res \in {"ok", "err", "throw"} : RespondSelect(f, res)
    \/ \E f \in hCalls, err \in BOOLEAN : RespondUpdate(f, err)

InitPlayerRequests ==
    /\ PlayerRequestsInit
    /\ ChatIdle /\ NotifIdle /\ ApiIdle /\ TeamsIdle /\ AuthIdle
    /\ MatchIdle /\ SetupIdle /\ route = "/discover"

SpecPlayerRequests == InitPlayerRequests /\ [][PlayerRequestsNext]_vars

\* C22: after any sendRequest calls of one signed-in user, overlapping ones
\* included, player_requests holds at most one row with that user as sender
\* for each receiver, and a call that has returned null has inserted no
\* notification.
C22_OneRequestPerReceiver ==
    /\ \A r \in Users : Cardinality(RequestsOf(Me, r)) <= 1
    /\ \A f \in hCalls :
         (f.fn = "sendRequest" /\ f.pc = "done" /\ f.ret = "null")
            => ~\E n \in dbNotices : n.by = f.id

\* the call f is one respondToRequest has to refuse: no user is signed in, or
\* no request with the given id has the user as receiver
Refused(f) ==
    /\ f.fn = "respondToRequest"
    /\ \/ f.usr = NoUser
       \/ ~\E q \in dbRequests : q.id = f.arg /\ q.receiver = f.usr

\* C23: respondToRequest changes the status of a request only when the
\* signed-in user is its receiver; for a request that does not exist, for
\* another receiver's request or without a user it returns false, never
\* reaches the update and creates no notification.
C23_OnlyReceiverResponds ==
    /\ [](\A f \in hCalls : Refused(f) =>
            /\ f.pc \in {"select", "done"}
            /\ f.pc = "done" => f.ret = "false"
            /\ ~\E n \in dbNotices : n.by = f.id)
    /\ [][\A q \in dbRequests : q \notin dbRequests' =>
            \E f \in hCalls :
               /\ f.fn = "respondToRequest" /\ f.arg = q.id
               /\ f.usr # NoUser /\ f.usr = q.receiver
               /\ f \notin hCalls']_vars

\* C23 witness: a call for the request the user sent to the other user has
\* returned false and the request is still pending, while a call for the
\* request the user received has changed its status and returned true.
C23_Witness ==
    \E f, g \in hCalls :
       /\ f.fn = "respondToRequest" /\ f.usr = Me /\ f.arg = 2
       /\ f.pc = "done" /\ f.ret = "false"
       /\ \E q \in dbRequests : q.id = 2 /\ q.receiver = Other /\ q.status = "pending"
       /\ g.fn = "respondToRequest" /\ g.arg = 1 /\ g.pc = "done" /\ g.ret = "true"
       /\ \E q \in dbRequests : q.id = 1 /\ q.status # "pending"

\* ------------------------------------------------------------------------
\* hooks/use-upload (useChats) and ChatPage.joinChat
\* ------------------------------------------------------------------------
\* ids of chats: two at the start, one more for every chat created
ChatIds == 1..(2 + MaxChatOps)

\* joinChat of useChats or of ChatPage up to its first await: without a user
\* the hook's returns false and the page's returns nothing
JoinChatStart(fn, chatId) ==
    /\ HookOps < MaxChatOps
    /\ hCalls' = hCalls \cup
         {IF hUser = NoUser
          THEN HookCall(fn, chatId, FALSE, "done",
                        IF fn = "useChats.joinChat" THEN "false" ELSE "undefined")
          ELSE HookCall(fn, chatId, FALSE, "check", "none")}
    /\ UNCHANGED <<hUser, dbRequests, dbNotices, dbChatRows, dbJoined, chats>>
    /\ UNCHANGED nonHookVars

\* What joinChat does with the answer of its participant select (maybeSingle
\* in the hook, single in the page; both give data with exactly one row). The
\* hook throws checkError and returns true for a participant; the page reads
\* data only and inserts whenever data is null.
AfterJoinCheck(fn, res, rows) ==
    IF fn = "useChats.joinChat"
    THEN IF res # "ok" \/ rows > 1 THEN "false"
         ELSE IF rows = 1 THEN "true" ELSE "insert"
    ELSE IF res = "throw" THEN "undefined"
         ELSE IF res = "ok" /\ rows = 1 THEN "undefined" ELSE "insert"

\* The participant select of joinChat answers.
JoinChatCheck(f, res) ==
    /\ f \in hCalls /\ f.fn \in {"useChats.joinChat", "ChatPage.joinChat"}
    /\ f.pc = "check"
    /\ LET then == AfterJoinCheck(f.fn, res, dbJoined[f.arg][f.usr]) IN
       IF then = "insert" THEN HookStep(f, "insert", "none")
       ELSE HookStep(f, "done", then)
    /\ UNCHANGED <<hUser, dbRequests, dbNotices, dbChatRows, dbJoined, chats>>
    /\ UNCHANGED nonHookVars

\* The participant insert of joinChat answers: an error is thrown to the
\* catch block.
JoinChatInsert(f, err) ==
    /\ f \in hCalls /\ f.fn \in {"useChats.joinChat", "ChatPage.joinChat"}
    /\ f.pc = "insert"
    /\ dbJoined' = IF err THEN dbJoined
                   ELSE [dbJoined EXCEPT ![f.arg][f.usr] = @ + 1]
    /\ HookStep(f, "done",
                IF f.fn = "ChatPage.joinChat" THEN "undefined"
                ELSE IF err THEN "false" ELSE "true")
    /\ UNCHANGED <<hUser, dbRequests, dbNotices, dbChatRows, chats>>
    /\ UNCHANGED nonHookVars

\* participants:chat_participants(count)
ParticipantCount(c) == dbJoined[c][Me] + dbJoined[c][Other]

RECURSIVE TransformChats(_)
\* data.map(...) of fetchChats: id, type and _count.participants; the
\* entries get no participants array
TransformChats(rows) ==
    IF rows = <<>> THEN <<>>
    ELSE <<[id |-> Head(rows).id, type |-> Head(rows).chat_type,
            count |-> ParticipantCount(Head(rows).id),
            participants |-> [defined |-> FALSE, ids |-> {}]]>>
         \o TransformChats(Tail(rows))

\* fetchChats after its await: setChats(transformedData), newest chat first;
\* an error leaves the list as it was
FetchChatsDone(f, err) ==
    /\ f \in hCalls /\ f.fn = "fetchChats" /\ f.pc = "select"
    /\ chats' = IF err THEN chats ELSE TransformChats(SortDesc(dbChatRows))
    /\ HookStep(f, "done", "undefined")
    /\ UNCHANGED <<hUser, dbRequests, dbNotices, dbChatRows, dbJoined>>
    /\ UNCHANGED nonHookVars

\* chats.find(...) of createDirectChat: the position of the first direct chat
\* with two participants whose participants array has both users, 0 for
\* undefined
ExistingDirectChat(list, other, usr) ==
    LET hits == {i \in 1..Len(list) :
                   /\ list[i].type = "direct"
                   /\ list[i].count = 2
                   /\ list[i].participants.defined
                   /\ {other, usr} \subseteq list[i].participants.ids}
    IN IF hits = {} THEN 0 ELSE CHOOSE i \in hits : \A j \in hits : i <= j

\* createDirectChat up to its first await: null without a user, the chat
\* found in the list, or createChat('Direct Chat', 'direct', true, null,
\* [otherUserId]) up to its insert
CreateDirectChatStart(other) ==
    /\ HookOps < MaxChatOps
    /\ LET found == ExistingDirectChat(chats, other, hUser) IN
       hCalls' = hCalls \cup
         {IF hUser = NoUser THEN HookCall("createDirectChat", other, FALSE, "done", "null")
          ELSE IF found # 0
               THEN [HookCall("createDirectChat", other, FALSE, "done", "chat")
                       EXCEPT !.row = chats[found].id]
               ELSE HookCall("createDirectChat", other, FALSE, "chat", "none")}
    /\ UNCHANGED <<hUser, dbRequests, dbNotices, dbChatRows, dbJoined, chats>>
    /\ UNCHANGED nonHookVars

NextChatId == 3 + Cardinality({c \in dbChatRows : c.id > 2})

\* A request of createChat answers: the insert of the chat row, then of the
\* creator's participant row, then of the other participants' rows. An error
\* is thrown to createChat's catch block, which returns null. The insert of
\* the chat row reaches the hook's channel, whose handler calls fetchChats.
CreateChatStep(f, err) ==
    /\ f \in hCalls /\ f.fn = "createDirectChat"
    /\ f.pc \in {"chat", "creator", "others"}
    /\ IF err
       THEN /\ HookStep(f, "done", "null")
            /\ UNCHANGED <<dbChatRows, dbJoined>>
       ELSE CASE f.pc = "chat" ->
                   /\ dbChatRows' = dbChatRows \cup
                        {[id |-> NextChatId, chat_type |-> "direct"]}
                   /\ hCalls' = (hCalls \ {f}) \cup
                        {[f EXCEPT !.pc = "creator", !.row = NextChatId],
                         HookCall("fetchChats", 0, FALSE, "select", "none")}
                   /\ UNCHANGED dbJoined
              [] f.pc = "creator" ->
                   /\ dbJoined' = [dbJoined EXCEPT ![f.row][f.usr] = @ + 1]
                   /\ HookStep(f, "others", "none")
                   /\ UNCHANGED dbChatRows
              [] f.pc = "others" ->
                   /\ dbJoined' = [dbJoined EXCEPT ![f.row][f.arg] = @ + 1]
                   /\ HookStep(f, "done", "chat")
                   /\ UNCHANGED dbChatRows
    /\ UNCHANGED <<hUser, dbRequests, dbNotices, chats>>
    /\ UNCHANGED nonHookVars

\* useChats after the first render of a component that uses it: with a user
\* fetchChats is under way. The tables hold a global chat the user has joined
\* or not, and a direct chat of the user and the other user, or not.
UseChatsInit ==
    /\ hUser \in {NoUser, Me}
    /\ hCalls = IF hUser = NoUser THEN {}
                ELSE {[id |-> 1, fn |-> "fetchChats", usr |-> hUser, arg |-> 0,
                       accept |-> FALSE, pc |-> "select", ret |-> "none",
                       row |-> 0, peer |-> 0]}
    /\ dbRequests = {}
    /\ dbNotices = {}
    /\ \E direct \in BOOLEAN, joined \in {0, 1} :
         /\ dbChatRows = {[id |-> 1, chat_type |-> "global"]} \cup
               (IF direct THEN {[id |-> 2, chat_type |-> "direct"]} ELSE {})
         /\ dbJoined = [c \in ChatIds |-> [u \in Users |->
               IF c = 1 /\ u = Me THEN joined
               ELSE IF c = 2 /\ direct THEN 1 ELSE 0]]
    /\ chats = <<>>

UseChatsNext ==
    \/ \E fn \in {"useChats.joinChat", "ChatPage.joinChat"}, c \in 1..2 :
         JoinChatStart(fn, c)
    \/ \E f \in hCalls, res \in {"ok", "err", "throw"} : JoinChatCheck(f, res)
    \/ \E f \in hCalls, err \in BOOLEAN : JoinChatInsert(f, err)
    \/ \E f \in hCalls, err \in BOOLEAN : FetchChatsDone(f, err)
    \/ CreateDirectChatStart(Other)
    \/ \E f \in hCalls, err \in BOOLEAN : CreateChatStep(f, err)

InitUseChats ==
    /\ UseChatsInit
    /\ ChatIdle /\ NotifIdle /\ ApiIdle /\ TeamsIdle /\ AuthIdle
    /\ MatchIdle /\ SetupIdle /\ route = "/chat"

SpecUseChats == InitUseChats /\ [][UseChatsNext]_vars

\* the call f is a joinChat and the only joinChat made for its chat
OnlyJoin(f) ==
    /\ f.fn \in {"useChats.joinChat", "ChatPage.joinChat"}
    /\ \A g \in hCalls :
         (g.fn \in {"useChats.joinChat", "ChatPage.joinChat"} /\ g.arg = f.arg)
            => g = f

\* C24: joinChat is idempotent: while the user is a participant of the chat,
\* no step of a joinChat call (the only one made for the chat) inserts a
\* chat_participants row, and the hook's call whose select succeeds returns
\* true.
C24_JoinChatIdempotent ==
    [][\A f \in hCalls :
         (OnlyJoin(f) /\ f.usr # NoUser /\ dbJoined[f.arg][f.usr] >= 1) =>
            /\ dbJoined'[f.arg][f.usr] = dbJoined[f.arg][f.usr]
            /\ (f.fn = "useChats.joinChat" /\ JoinChatCheck(f, "ok")) =>
                  \A g \in hCalls' \ hCalls : g.pc = "done" /\ g.ret = "true"]_vars

\* the positions of the loaded chat list that hold a direct chat whose
\* participants are usr and other
DirectChatsHeld(other, usr) ==
    {i \in 1..Len(chats) :
       /\ chats[i].type = "direct"
       /\ dbJoined[chats[i].id][usr] = 1
       /\ dbJoined[chats[i].id][other] = 1}

\* C25: createDirectChat called while the loaded chat list holds a direct
\* chat of the user and the other user returns that chat at once, so that it
\* inserts no chat row.
C25_ExistingDirectChatReturned ==
    [][\A g \in hCalls' :
         (/\ g.fn = "createDirectChat" /\ g.usr # NoUser
          /\ ~\E f \in hCalls : f.id = g.id
          /\ DirectChatsHeld(g.arg, g.usr) # {}) =>
            /\ g.pc = "done" /\ g.ret = "chat"
            /\ \E i \in DirectChatsHeld(g.arg, g.usr) : g.row = chats[i].id]_vars

====
